---- MODULE Spec2Model ----
(***************************************************************************)
(* Job orchestration of the heimdex agent: the durable jobs table, the     *)
(* crash-recovery sweep of db.New, Runner.Start with its backfill passes,  *)
(* the poll loop (processNextJob), the index workflow with its faces and   *)
(* scenes fan-out, the inline scene upload and the upload retry worker.    *)
(***************************************************************************)
EXTENDS Integers, Sequences, FiniteSets, TLC, Bags

\* ---------------------------------------------------------------- bounds
NumFiles == 1        \* video files present under the source directory
MaxJobs == 3         \* rows of the jobs table
MaxNow == 2          \* wall clock, in units of TickSeconds
MaxAttempt == 40     \* attempt numbers uploadBackoff is called with
MaxDepth == 2        \* directories from the source's root down to a file
MaxCalls == 2        \* calls of Start after the first

\* ------------------------------------------------------ program constants
TickSeconds == 5     \* pollInterval
maxRetries == 5
defaultListLimit == 50     \* ListJobs: limit <= 0
indexJobsListLimit == 10000  \* createIndexJobs
uploadJobsListLimit == 10000 \* backfillCloudUploads
thumbJobsListLimit == 1000   \* backfillThumbnails
BackoffBase == 10    \* seconds
maxBackoff == 600    \* seconds (10 * time.Minute)
RetryableFrom == 500 \* UploadError.IsRetryable: StatusCode >= 500

Files == 1..NumFiles
NoFile == 0
TheSource == "s1"
NoSource == ""

JobTypeScan == "scan"
JobTypeIndex == "index"
JobTypeUploadScenes == "upload_scenes"
JobTypeGenerateThumbnails == "generate_thumbnails"

JobStatusPending == "pending"
JobStatusRunning == "running"
JobStatusCompleted == "completed"
JobStatusFailed == "failed"

\* ------------------------------------------------------------- timestamps
\* A stored timestamp is text.  CreateJob writes Go's time.RFC3339 layout,
\* the UPDATE statements write SQLite's datetime('now') layout.
FormatRFC3339(t) == [t |-> t, layout |-> "rfc3339"]
DatetimeNow(t) == [t |-> t, layout |-> "sqlite"]

\* time.Time{} : what scanJobs keeps when time.Parse fails (error dropped)
ZeroTime == -1

ParseRFC3339(ts) == IF ts.layout = "rfc3339" THEN ts.t ELSE ZeroTime

\* ---------------------------------------------------------- time.Duration
\* A Duration is an int64 count of nanoseconds, two's complement, kept here
\* as four 16-bit limbs, least significant first.
Limb == 65536
Limbs == 4
ZeroDuration == [i \in 1..Limbs |-> 0]
Nanosecond == [ZeroDuration EXCEPT ![1] = 1]
MaxInt64 == [i \in 1..Limbs |-> IF i = Limbs THEN Limb \div 2 - 1 ELSE Limb - 1]

\* d * k in int64 (k a small non-negative constant): the product modulo 2^64
RECURSIVE Carry(_, _, _)
Carry(d, k, i) == IF i = 0 THEN 0 ELSE (d[i] * k + Carry(d, k, i - 1)) \div Limb
Mul(d, k) == [i \in 1..Limbs |-> (d[i] * k + Carry(d, k, i - 1)) % Limb]

Negative(d) == d[Limbs] >= Limb \div 2

\* a > b on int64
RECURSIVE AboveFrom(_, _, _)
AboveFrom(a, b, i) ==
    IF i = 0 THEN FALSE
    ELSE IF a[i] # b[i] THEN a[i] > b[i]
    ELSE AboveFrom(a, b, i - 1)
Greater(a, b) ==
    IF Negative(a) # Negative(b) THEN Negative(b) ELSE AboveFrom(a, b, Limbs)
Less(a, b) == Greater(b, a)

Microsecond == Mul(Nanosecond, 1000)
Millisecond == Mul(Microsecond, 1000)
Second == Mul(Millisecond, 1000)

\* time.Since in whole seconds; for the zero time it saturates at the maximum
\* Duration
MaxDuration == 1000000
Since(nowT, t) == IF t = ZeroTime THEN MaxDuration ELSE (nowT - t) * TickSeconds

\* the Duration of a span of whole seconds (a non-negative span below 2^15 s
\* or the saturated one)
Seconds(span) == IF span = MaxDuration THEN MaxInt64 ELSE Mul(Second, span)

\* ----------------------------------------------------------- uploadBackoff
\* no call of uploadBackoff made yet
NoDelay == [attempt |-> 0, set |-> FALSE, again |-> FALSE,
            before |-> ZeroDuration, backoff |-> ZeroDuration]

\* the loop: backoff *= 3, attempt times
RECURSIVE Tripled(_, _)
Tripled(backoff, n) == IF n <= 0 THEN backoff ELSE Tripled(Mul(backoff, 3), n - 1)

uploadBackoff(attempt) ==
    IF attempt <= 0 THEN Mul(Second, BackoffBase)
    ELSE LET backoff == Tripled(Mul(Second, BackoffBase), attempt)
             ceiling == Mul(Second, maxBackoff)
         IN IF Greater(backoff, ceiling) THEN ceiling ELSE backoff

\* UploadError.IsRetryable
IsRetryableOrRateLimited(code) == code >= RetryableFrom \/ code = 429
IsRetryable(code) == code >= RetryableFrom

\* ------------------------------------------------------------------ state
VARIABLES
    jobs,           \* the jobs table, in creation order (row id = index)
    sources,        \* ids of the rows of the sources table
    fileRows,       \* the rows of the files table, a bag of file ids
    sceneArt,       \* per file: <artifactsDir>/<fileId>/scenes/result.json
    thumbDir,       \* files whose thumbnails directory is non-empty
    now,            \* wall clock
    stage,          \* "down" | "opened" (db.New returned) | "up" (Start ran)
    cfg,            \* what run() configured: pipeline runner, cloud client
    running,        \* Runner.running
    paused,         \* Runner.paused
    ctxDone,        \* the context given to Start is cancelled
    pc,             \* where the poll loop's goroutine is
    cur,            \* row id of the job being processed (0: none)
    caps,           \* capabilities the doctor returned for the current job
    speechOK,
    completedSteps,
    firstErr,
    parallelDone,   \* parallelCancel() was called
    worker,         \* the faces and scenes goroutines
    results,        \* the results channel (capacity 2)
    stoppedRunning, \* history: rows that were running when the process stopped
    stoppedPending, \* history: rows that were pending when the process stopped
    attempts,       \* history: uploader calls made by the retry worker, per row
    lastRetry,      \* history: the retry worker's dispatch decision, if the
                    \* last step made one or its attempt is under way
    lastUp,         \* history: the upload call the last step made, its outcome
    fanLog,         \* history: the fan-in the last step returned from
    doctor,         \* the CachedDoctor: its mutex, its cache, its callers
    delay,          \* uploadBackoff by itself: the attempt it is called with,
                    \* what it returned and what it returned the time before
    refused,        \* history: the files whose first (inline) scene upload got a
                    \* permanent error from the cloud
    poll,           \* the goroutines inside Start's poll loop, and the later
                    \* calls of Start made on the runner
    ahead,          \* per job row: the number of job rows of other files (files
                    \* the model does not follow) created after it
    place,          \* per video file: the directories from the source's root
                    \* down to the one it lies in; for each, whether its name
                    \* begins with "."
    lastJob         \* history: the job the last tick dispatched, how its
                    \* pre-flight went and what its pipeline steps returned;
                    \* (for a scan job, how many files its walk found);
                    \* kept while a scan or an index job is in flight

vars == <<jobs, sources, fileRows, sceneArt, thumbDir, now, stage, cfg, running,
          paused, ctxDone, pc, cur, caps, speechOK, completedSteps, firstErr,
          parallelDone, worker, results, stoppedRunning, stoppedPending, attempts,
          lastRetry, lastUp, fanLog, lastJob, doctor, delay, place, refused, ahead, poll>>

Workers == {"faces", "scenes"}
NoCaps == [speech |-> FALSE, faces |-> FALSE, scenes |-> FALSE]
AllCaps == [speech : BOOLEAN, faces : BOOLEAN, scenes : BOOLEAN]
\* What UploadScenes returns: nil (a 2xx answer), an *UploadError carrying the
\* HTTP status code, or an error that is no *UploadError (transport, timeout,
\* cancelled context), written 0.
UploadOK == 200
NotUploadError == 0
StatusCodes == {422, 429, 500}
UploadResults == {UploadOK, NotUploadError} \cup StatusCodes
NoRetry == [job |-> 0, n |-> 0, early |-> FALSE, act |-> "none"]
NoUp == [kind |-> "none", job |-> 0, called |-> FALSE, outcome |-> 0,
         live |-> TRUE]
\* how a pipeline step went: not invoked, invoked and not back, or what came
\* back: success, an error from the call, a nonzero exit, an output that does
\* not validate
StepOutcomes == {"ok", "error", "exit", "invalid"}
NoJob == [job |-> 0, pre |-> "none", caps |-> NoCaps, speech |-> "none",
          faces |-> "none", scenes |-> "none", found |-> 0]
NoFan == [n |-> 0, errs |-> 0, first |-> "", failed |-> FALSE, cancelled |-> FALSE]

\* ------------------------------------------------------------- repository
Job(type, status, source, file, progress, error, t) ==
    [type |-> type, status |-> status, source |-> source, file |-> file,
     progress |-> progress, error |-> error,
     updated |-> FormatRFC3339(IF type = JobTypeUploadScenes THEN t ELSE 0)]

\* updated_at is read for upload_scenes rows only (processUploadScenesJob), so
\* the model keeps it for those rows and leaves it as created for the others
Touch(row, t) ==
    IF row.type = JobTypeUploadScenes THEN DatetimeNow(t) ELSE row.updated

UpdateJobStatusAnyContext(js, live, id, status, errorMsg, t) ==
    [js EXCEPT ![id].status = status, ![id].error = errorMsg,
               ![id].updated = Touch(js[id], t)]
\* ExecContext on a cancelled context returns before the statement runs
UpdateJobStatus(js, live, id, status, errorMsg, t) ==
    IF live
    THEN [js EXCEPT ![id].status = status, ![id].error = errorMsg,
                    ![id].updated = Touch(js[id], t)]
    ELSE js

UpdateJobProgress(js, live, id, progress, t) ==
    IF live
    THEN [js EXCEPT ![id].progress = progress, ![id].updated = Touch(js[id], t)]
    ELSE js

CreateJob(js, live, j) == IF live THEN Append(js, j) ELSE js

\* scanJobs: the row as the runner sees it
UpdatedAt(row) == ParseRFC3339(row.updated)

ListPendingJobsAll(js) == {i \in DOMAIN js : TRUE}
\* ids of the rows with status = 'pending'
ListPendingJobs(js) == {i \in DOMAIN js : js[i].status = JobStatusPending}

\* no goroutine is in Start, no later call of it has been made
NoPoll == [loops |-> 0, calls |-> 0]
\* no job row of another file has been created
NoneAhead == [i \in 1..MaxJobs |-> 0]
\* SELECT ... FROM jobs ORDER BY created_at DESC LIMIT ?: the ids of the rows
\* of js among the limit most recent job rows
ListJobs(js, limit) ==
    LET n == IF limit <= 0 THEN defaultListLimit ELSE limit
        \* nothing has been created after a row the call at hand has inserted
        newer(i) == (IF i \in DOMAIN ahead THEN ahead[i] ELSE 0) + (Len(js) - i)
    IN {i \in DOMAIN js : newer(i) < n}

Min(S) == CHOOSE x \in S : \A y \in S : x <= y

markInterruptedJobsUnfinished(js, t) ==
    [i \in DOMAIN js |->
        IF js[i].status \in {JobStatusRunning, JobStatusPending}
        THEN [js[i] EXCEPT !.status = JobStatusFailed,
                           !.error = "interrupted by restart",
                           !.updated = Touch(js[i], t)]
        ELSE js[i]]
markInterruptedJobsIndexOnly(js, t) ==
    [i \in DOMAIN js |->
        IF js[i].status = JobStatusRunning /\ js[i].type = JobTypeIndex
        THEN [js[i] EXCEPT !.status = JobStatusFailed,
                           !.error = "interrupted by restart",
                           !.updated = Touch(js[i], t)]
        ELSE js[i]]
markInterruptedJobs(js, t) ==
    [i \in DOMAIN js |->
        IF js[i].status = JobStatusRunning
        THEN [js[i] EXCEPT !.status = JobStatusFailed,
                           !.error = "interrupted by restart",
                           !.updated = Touch(js[i], t)]
        ELSE js[i]]

Running(js) == {i \in DOMAIN js : js[i].status = JobStatusRunning}

\* ------------------------------------------------------------ CachedDoctor
\* who calls into the CachedDoctor: processIndexJob and the status handler
\* call Get, a status reader calls Peek
GetCallers == {"runner", "status"}
PeekCallers == {"reader"}
DoctorCallers == GetCallers \cup PeekCallers

\* mu: writer is the caller whose Lock() has been announced (new readers wait
\* from then on), readers the callers holding a read lock; cached is nil, a
\* snapshot younger than the TTL, or an older one; at is where each caller is;
\* saw is d.cached as the caller's Get found it under the read lock (none:
\* not read in this call), probe how the caller's RunDoctor ended (none: not
\* run in this call), ret what the caller's last call returned
NoReturn == [snap |-> "none", err |-> FALSE]
NoDoctor == [writer |-> "none", readers |-> {}, cached |-> "nil",
             at |-> [c \in DoctorCallers |-> "idle"],
             saw |-> [c \in DoctorCallers |-> "none"],
             probe |-> [c \in DoctorCallers |-> "none"],
             ret |-> [c \in DoctorCallers |-> NoReturn]]

\* ------------------------------------------------------- filepath.WalkDir
\* every video file lies in the root directory of the source, whose name
\* does not begin with "."
InRoot == [f \in Files |-> <<FALSE>>]

\* the chains of directories a file may lie under, the source's root first
Chains == UNION {[1..n -> BOOLEAN] : n \in 1..MaxDepth}

\* some directory of the chain has a name beginning with "."
Hidden(chain) == \E i \in DOMAIN chain : chain[i]

\* d.IsDir() && strings.HasPrefix(d.Name(), "."), for a directory
SkipsDirNever(dot) == FALSE
SkipsDir(dot) == dot

\* the walk goes down the chain from its i-th directory and comes to the file
\* unless a directory on the way returns filepath.SkipDir
RECURSIVE Visits(_, _)
Visits(chain, i) ==
    IF i > Len(chain) THEN TRUE
    ELSE IF SkipsDir(chain[i]) THEN FALSE
    ELSE Visits(chain, i + 1)

\* the video files WalkDir can append to files
WalkDir(pl) == {f \in Files : Visits(pl[f], 1)}

\* --------------------------------------------------------------- lifecycle
Init ==
    /\ jobs = <<>>
    /\ sources = {}
    /\ fileRows = EmptyBag
    /\ sceneArt = [f \in Files |-> "none"]
    /\ thumbDir = {}
    /\ now = 0
    /\ stage = "opened"
    /\ cfg \in [runner : BOOLEAN, cloud : BOOLEAN]
    /\ running = FALSE
    /\ paused = FALSE
    /\ ctxDone = FALSE
    /\ pc = "idle"
    /\ cur = 0
    /\ caps = NoCaps
    /\ speechOK = FALSE
    /\ completedSteps = 0
    /\ firstErr = ""
    /\ parallelDone = FALSE
    /\ worker = [w \in Workers |-> "off"]
    /\ results = <<>>
    /\ stoppedRunning = {}
    /\ attempts = [i \in 1..MaxJobs |-> 0]
    /\ lastRetry = NoRetry
    /\ lastUp = NoUp
    /\ fanLog = NoFan
    /\ lastJob = NoJob
    /\ stoppedPending = {}
    /\ delay = NoDelay
    /\ refused = {}
    /\ place = InRoot
    /\ ahead = NoneAhead
    /\ poll = NoPoll
    /\ doctor = NoDoctor

\* the job handler's locals, as they are when no handler is active
HandlerReset ==
    /\ pc' = "idle"
    /\ cur' = 0
    /\ caps' = NoCaps
    /\ speechOK' = FALSE
    /\ completedSteps' = 0
    /\ firstErr' = ""
    /\ parallelDone' = FALSE
    /\ worker' = [w \in Workers |-> "off"]
    /\ results' = <<>>

HandlerVars == <<pc, cur, caps, speechOK, completedSteps, firstErr, parallelDone,
                 worker, results>>
DiskVars == <<sceneArt, thumbDir>>
\* lastRetry, lastUp and fanLog record what the last step did: a step that
\* writes none of them clears them
LogReset == lastRetry' = NoRetry /\ lastUp' = NoUp /\ fanLog' = NoFan
\* the dispatch record of a retry attempt stays while the attempt is under way
LogPass0 ==
    /\ lastRetry' = IF pc = "retry" THEN lastRetry ELSE NoRetry
    /\ lastUp' = NoUp
    /\ fanLog' = NoFan
    /\ lastJob' = IF pc \in {"scan", "scanjobs", "speech", "fanin"} THEN lastJob
                   ELSE NoJob
\* the rows that were pending at the last stop are remembered up to the first
\* dispatch of the next process
LogPass == LogPass0 /\ stoppedPending' = (IF stage = "up" THEN {} ELSE stoppedPending)
\* the record of a tick that dispatched job id to a handler other than
\* processIndexJob
Dispatched(id) == [NoJob EXCEPT !.job = id, !.pre = "ok"]

\* time passes; the clock is read for upload_scenes rows only, so the model
\* lets it run only while there is such a row waiting
Advance ==
    /\ now < MaxNow
    /\ \E i \in DOMAIN jobs : /\ jobs[i].type = JobTypeUploadScenes
                              /\ jobs[i].status = JobStatusPending
    /\ now' = now + 1
    /\ LogPass
    /\ UNCHANGED <<jobs, sources, fileRows, DiskVars, stage, cfg, running, paused,
                   ctxDone, HandlerVars, stoppedRunning, attempts, doctor, delay, place, refused, ahead, poll>>

\* the process stops: run() returns after cancel(), or the process is killed
Kill ==
    /\ stage # "down"
    /\ stage' = "down"
    /\ stoppedRunning' = Running(jobs)
    /\ stoppedPending' = ListPendingJobs(jobs)
    /\ running' = FALSE
    /\ paused' = FALSE
    /\ ctxDone' = FALSE
    /\ HandlerReset
    /\ LogReset
    /\ lastJob' = NoJob
    /\ poll' = NoPoll
    /\ UNCHANGED <<jobs, sources, fileRows, DiskVars, now, cfg, attempts, doctor, delay, place, refused, ahead>>

\* db.New: migrate, then markInterruptedJobs; run() reads its configuration
Open ==
    /\ stage = "down"
    /\ stage' = "opened"
    /\ jobs' = markInterruptedJobs(jobs, now)
    /\ cfg' \in [runner : BOOLEAN, cloud : BOOLEAN]
    /\ LogPass
    /\ UNCHANGED <<sources, fileRows, DiskVars, now, running, paused, ctxDone,
                   HandlerVars, stoppedRunning, attempts, doctor, delay, place, refused, ahead, poll>>

\* main: cancel() after the quit signal
Cancel ==
    /\ stage = "up"
    /\ ~ctxDone
    /\ ctxDone' = TRUE
    /\ LogPass
    /\ UNCHANGED <<jobs, sources, fileRows, DiskVars, now, stage, cfg, running,
                   paused, HandlerVars, stoppedRunning, attempts, doctor, delay, place, refused, ahead, poll>>

\* Start's loop: case <-ctx.Done()
LoopExit ==
    /\ stage = "up"
    /\ running
    /\ ctxDone
    /\ pc = "idle"
    /\ running' = FALSE
    /\ poll' = [poll EXCEPT !.loops = @ - 1]
    /\ LogPass
    /\ UNCHANGED <<jobs, sources, fileRows, DiskVars, now, stage, cfg, paused,
                   ctxDone, HandlerVars, stoppedRunning, attempts, doctor, delay, place, refused, ahead>>

Pause ==
    /\ stage = "up"
    /\ ~paused
    /\ paused' = TRUE
    /\ LogPass
    /\ UNCHANGED <<jobs, sources, fileRows, DiskVars, now, stage, cfg, running,
                   ctxDone, HandlerVars, stoppedRunning, attempts, doctor, delay, place, refused, ahead, poll>>

Resume ==
    /\ stage = "up"
    /\ paused
    /\ paused' = FALSE
    /\ LogPass
    /\ UNCHANGED <<jobs, sources, fileRows, DiskVars, now, stage, cfg, running,
                   ctxDone, HandlerVars, stoppedRunning, attempts, doctor, delay, place, refused, ahead, poll>>

\* ---------------------------------------------------------- catalog service
AddFolder ==
    /\ stage = "up"
    /\ TheSource \notin sources
    /\ sources' = sources \cup {TheSource}
    /\ LogPass
    /\ UNCHANGED <<jobs, fileRows, DiskVars, now, stage, cfg, running, paused,
                   ctxDone, HandlerVars, stoppedRunning, attempts, doctor, delay, place, refused, ahead, poll>>

\* DeleteFilesBySource, DeleteSource; the jobs' foreign keys are ON DELETE SET NULL
RemoveSource ==
    /\ stage = "up"
    /\ TheSource \in sources
    /\ sources' = {}
    /\ fileRows' = EmptyBag
    /\ jobs' = [i \in DOMAIN jobs |->
                  [jobs[i] EXCEPT !.source = NoSource, !.file = NoFile]]
    \* a later scan gives the files new ids, and so new artifact directories
    /\ sceneArt' = [f \in Files |-> "none"]
    /\ thumbDir' = {}
    /\ LogPass
    /\ refused' = {}
    /\ UNCHANGED <<now, stage, cfg, running, paused, ctxDone,
                   HandlerVars, stoppedRunning, attempts, doctor, delay, place, ahead, poll>>

ScanSource ==
    /\ stage = "up"
    /\ TheSource \in sources
    /\ Len(jobs) < MaxJobs
    /\ jobs' = CreateJob(jobs, TRUE,
                  Job(JobTypeScan, JobStatusPending, TheSource, NoFile, 0, "", now))
    /\ LogPass
    /\ UNCHANGED <<sources, fileRows, DiskVars, now, stage, cfg, running, paused,
                   ctxDone, HandlerVars, stoppedRunning, attempts, doctor, delay, place, refused, ahead, poll>>

\* ------------------------------------------------------------ Runner.Start
\* the enumerations of a finite set (Go's map iteration order is not fixed)
Orders(S) ==
    {q \in [1..Cardinality(S) -> S] : \A i, j \in DOMAIN q : i # j => q[i] # q[j]}

RECURSIVE CreatePending(_, _, _, _)
CreatePending(js, type, fs, t) ==
    IF fs = <<>> THEN js
    ELSE CreatePending(
            Append(js, Job(type, JobStatusPending, NoSource, Head(fs), 0, "", t)),
            type, Tail(fs), t)

UploadBackfillFilesNoDedup(js, art) ==
    LET completedIndex == {js[i].file : i \in {k \in DOMAIN js :
                               /\ js[k].type = JobTypeIndex
                               /\ js[k].status = JobStatusCompleted
                               /\ js[k].file # NoFile}}
    IN {f \in completedIndex : art[f] # "none"}
\* backfillCloudUploads: the files it creates an upload_scenes job for
UploadBackfillFiles(js, art) ==
    LET completedIndex == {js[i].file : i \in {k \in ListJobs(js, uploadJobsListLimit) :
                               /\ js[k].type = JobTypeIndex
                               /\ js[k].status = JobStatusCompleted
                               /\ js[k].file # NoFile}}
        hasUpload == {js[i].file : i \in {k \in ListJobs(js, uploadJobsListLimit) :
                               /\ js[k].type = JobTypeUploadScenes
                               /\ js[k].file # NoFile}}
    IN {f \in completedIndex : f \notin hasUpload /\ art[f] # "none"}

\* backfillThumbnails: the files it creates a generate_thumbnails job for
ThumbBackfillFiles(js, rows, art, thumbs) ==
    LET hasThumbJob == {js[i].file : i \in {k \in ListJobs(js, thumbJobsListLimit) :
                               js[k].type = JobTypeGenerateThumbnails}}
    IN {f \in rows : f \notin hasThumbJob /\ art[f] # "none" /\ f \notin thumbs}

\* the ascending enumeration of a set of file ids (ListFiles' row order)
RECURSIVE Ascending(_)
Ascending(S) == IF S = {} THEN <<>> ELSE <<Min(S)>> \o Ascending(S \ {Min(S)})

\* backfillCloudUploads, then backfillThumbnails
BackfillPasses ==
    LET up == IF cfg.cloud /\ cfg.runner
              THEN UploadBackfillFiles(jobs, sceneArt) ELSE {}
    IN \E ord \in Orders(up) :
         LET js1 == CreatePending(jobs, JobTypeUploadScenes, ord, now)
             th == IF cfg.runner
                   THEN ThumbBackfillFiles(js1, BagToSet(fileRows), sceneArt, thumbDir)
                   ELSE {}
             js2 == CreatePending(js1, JobTypeGenerateThumbnails, Ascending(th), now)
         IN /\ Len(js2) <= MaxJobs
            /\ jobs' = js2

\* main: go runner.Start(ctx)
Start ==
    /\ stage = "opened"
    /\ ~running
    /\ BackfillPasses
    /\ stage' = "up"
    /\ running' = TRUE
    /\ poll' = [poll EXCEPT !.loops = @ + 1]
    /\ stoppedRunning' = {}
    /\ UNCHANGED <<sources, fileRows, DiskVars, now, cfg, paused, ctxDone,
                   HandlerVars, attempts, doctor, delay, place, refused, ahead>>
    /\ LogPass

\* if r.running.Swap(true): what the swap returns
AlreadyRunningNever == FALSE
AlreadyRunning == running

\* Start is called on the runner once more, by any goroutine of the process
StartAgain ==
    /\ stage = "up"
    /\ poll.calls < MaxCalls
    /\ IF AlreadyRunning
       THEN \* the call returns
            /\ UNCHANGED <<jobs, running>>
            /\ poll' = [poll EXCEPT !.calls = @ + 1]
       ELSE IF ctxDone
       THEN \* the loop has ended on the cancelled context: both passes fail at
            \* their listing, the select takes ctx.Done() and the call returns
            /\ UNCHANGED <<jobs, running>>
            /\ poll' = [poll EXCEPT !.calls = @ + 1]
       ELSE /\ BackfillPasses
            /\ running' = TRUE
            /\ poll' = [loops |-> poll.loops + 1, calls |-> poll.calls + 1]
    /\ UNCHANGED <<sources, fileRows, DiskVars, now, stage, cfg, paused, ctxDone,
                   HandlerVars, stoppedRunning, attempts, doctor, delay, place,
                   refused, ahead>>
    /\ LogPass

\* ---------------------------------------------------------- processNextJob
\* the ticker case of Start's loop is taken: the previous call has returned
TickerReadyAsync == stage = "up" /\ running /\ ~paused
TickerReadyWhilePaused == stage = "up" /\ running /\ pc = "idle"
TickerReady == stage = "up" /\ running /\ ~paused /\ pc = "idle"

\* case <-ticker.C: the flag is read and, the runner not being paused,
\* processNextJob is called
Tick ==
    /\ TickerReady
    /\ pc' = "tick"
    /\ LogPass0
    /\ stoppedPending' = (IF lastJob.job = 0 THEN stoppedPending ELSE {})
    /\ UNCHANGED <<jobs, sources, fileRows, DiskVars, now, stage, cfg, running,
                   paused, ctxDone, cur, caps, speechOK, completedSteps, firstErr,
                   parallelDone, worker, results, stoppedRunning, attempts, doctor, delay, place, refused, ahead, poll>>

\* processNextJob has been called and has not listed the pending jobs yet
InTick == stage = "up" /\ pc = "tick"

\* the handler returns to the loop at once
HandlerDone ==
    /\ pc' = "idle"
    /\ UNCHANGED <<cur, caps, speechOK, completedSteps, firstErr, parallelDone,
                   worker, results>>

\* ListPendingJobs on a cancelled context fails and processNextJob returns
HasNext == ~ctxDone /\ ListPendingJobs(jobs) # {}
\* jobs[0] of ORDER BY created_at ASC
Next0IndexFirst ==
    LET idx == {i \in ListPendingJobs(jobs) : jobs[i].type = JobTypeIndex}
    IN IF idx # {} THEN Min(idx) ELSE Min(ListPendingJobs(jobs))
Next0 == Min(ListPendingJobs(jobs))

\* processNextJob returns without a job: the listing failed (cancelled
\* context) or is empty
TickReturn ==
    /\ InTick /\ ~HasNext
    /\ pc' = "idle"
    /\ LogPass
    /\ UNCHANGED <<jobs, sources, fileRows, DiskVars, now, stage, cfg, running,
                   paused, ctxDone, cur, caps, speechOK, completedSteps, firstErr,
                   parallelDone, worker, results, stoppedRunning, attempts, doctor, delay, place, refused, ahead, poll>>

\* ------------------------------------------------------------------- scan
\* case JobTypeScan, up to ExecuteScan's directory walk
ProcessScan ==
    /\ InTick /\ HasNext
    /\ jobs[Next0].type = JobTypeScan
    /\ IF jobs[Next0].source \notin sources
       THEN /\ jobs' = UpdateJobStatus(jobs, TRUE, Next0, JobStatusFailed,
                                       "source not found", now)
            /\ HandlerDone
       ELSE /\ jobs' = UpdateJobStatus(jobs, TRUE, Next0, JobStatusRunning, "", now)
            /\ pc' = "scan"
            /\ cur' = Next0
            /\ UNCHANGED <<caps, speechOK, completedSteps, firstErr, parallelDone,
                           worker, results>>
    /\ LogReset /\ stoppedPending' = stoppedPending
    /\ lastJob' = Dispatched(Next0)
    /\ UNCHANGED <<sources, fileRows, DiskVars, now, stage, cfg, running, paused,
                   ctxDone, stoppedRunning, attempts, doctor, delay, place, refused, ahead, poll>>

\* createIndexJobs: the files that get a pending index job
IndexJobFiles(js, rows) ==
    LET indexed == {js[i].file : i \in {k \in ListJobs(js, indexJobsListLimit) :
                       /\ js[k].type = JobTypeIndex
                       /\ js[k].file # NoFile
                       /\ js[k].status \in {JobStatusPending, JobStatusRunning,
                                            JobStatusCompleted}}}
    IN {f \in rows : f \notin indexed}

RECURSIVE CreateIndexJobs(_, _, _)
CreateIndexJobs(js, fs, t) ==
    IF fs = <<>> THEN js
    ELSE CreateIndexJobs(
            Append(js, Job(JobTypeIndex, JobStatusPending, TheSource, Head(fs), 0, "", t)),
            Tail(fs), t)

\* the files table holds one row per stored file; the bag counts the rows of
\* a path.  INSERT ... ON CONFLICT(source_id, path) DO UPDATE SET size, mtime,
\* fingerprint: a catalogued path keeps its row (and the row its id), a new
\* path gets a row
InsertFile(rows, f) == rows (+) SetToBag({f})
UpsertFile(rows, f) == IF BagIn(f, rows) THEN rows ELSE rows (+) SetToBag({f})

InsertFiles(rows, fs) == rows (+) SetToBag(fs)
\* processFile for each of the files fs
RECURSIVE UpsertFiles(_, _)
UpsertFiles(rows, fs) ==
    IF fs = {} THEN rows
    ELSE UpsertFiles(UpsertFile(rows, Min(fs)), fs \ {Min(fs)})

\* the progress ExecuteScan writes after the i-th of total files
ScanProgress(i, total) == IF total > 0 THEN (i * 100) \div total ELSE 0

\* ExecuteScan from the walk's return to the write of the final status: found
\* is what the walk discovered (the walk callback swallows every error, so the
\* walk itself never fails), upserted the files processFile stored (its errors
\* are only logged) and written the number of loop rounds whose progress write
\* went through.  Every repository call takes ctx: nothing is written once it
\* is cancelled, the "cancelled" status of the loop's select included.
ScanReturn(found, upserted, written) ==
    /\ stage = "up" /\ pc = "scan"
    /\ LET live == ~ctxDone
           total == Cardinality(found)
           \* UpsertFile fails on the foreign key once the source row is gone
           rows == IF TheSource \in sources THEN UpsertFiles(fileRows, upserted)
                   ELSE fileRows
           js1 == IF written > 0
                  THEN UpdateJobProgress(jobs, TRUE, cur, ScanProgress(written, total), now)
                  ELSE jobs
       IN /\ found \subseteq WalkDir(place)
          /\ written \in 0..total
          /\ live => written = total
          /\ ~live => Cardinality(upserted) <= written + 1
          /\ fileRows' = rows
          /\ IF live
             THEN /\ jobs' = UpdateJobStatus(js1, TRUE, cur, JobStatusCompleted, "", now)
                  /\ pc' = "scanjobs"
                  /\ UNCHANGED <<cur, caps, speechOK, completedSteps, firstErr,
                                 parallelDone, worker, results>>
             ELSE /\ jobs' = UpdateJobStatus(js1, FALSE, cur,
                                IF written < total THEN JobStatusFailed
                                                   ELSE JobStatusCompleted,
                                IF written < total THEN "cancelled" ELSE "", now)
                  /\ HandlerReset
    /\ LogReset /\ stoppedPending' = {}
    /\ lastJob' = [lastJob EXCEPT !.found = Cardinality(found)]
    /\ UNCHANGED <<sources, DiskVars, now, stage, cfg, running, paused, ctxDone,
                   stoppedRunning, attempts, doctor, delay, place, refused, ahead, poll>>

\* ExecuteScan's last call, createIndexJobs: GetFilesBySource fails on a
\* cancelled context and nothing is created
ScanCreateIndexJobs ==
    /\ stage = "up" /\ pc = "scanjobs"
    /\ LET js == IF ~ctxDone
                 THEN CreateIndexJobs(jobs, Ascending(IndexJobFiles(jobs, BagToSet(fileRows))), now)
                 ELSE jobs
       IN /\ Len(js) <= MaxJobs
          /\ jobs' = js
    /\ HandlerReset
    /\ LogPass
    /\ UNCHANGED <<sources, fileRows, DiskVars, now, stage, cfg, running, paused,
                   ctxDone, stoppedRunning, attempts, doctor, delay, place, refused, ahead, poll>>

\* ------------------------------------------------------------------ index
ProgressOfRemaining(completed, total) == ((total - completed) * 100) \div total
ProgressOf(completed, total) == (completed * 100) \div total

TotalSteps(c) ==
    (IF c.speech THEN 1 ELSE 0) + (IF c.faces THEN 1 ELSE 0)
        + (IF c.scenes THEN 1 ELSE 0)

\* runFaces / runScenes
LaunchedWithoutSpeech(c, spOK) ==
    (IF c.faces THEN {"faces"} ELSE {}) \cup
    (IF c.scenes THEN {"scenes"} ELSE {})
Launched(c, spOK) ==
    (IF c.faces THEN {"faces"} ELSE {}) \cup
    (IF c.scenes /\ spOK THEN {"scenes"} ELSE {})

\* the tail of processIndexJob when no worker is launched: completed, and the
\* inline upload if there is one to make
UploadWanted(c, spOK) == cfg.cloud /\ c.scenes /\ spOK

\* if caps.HasSpeech: the speech step is run, and waited for
RunsSpeechNever(c) == FALSE
RunsSpeech(c) == c.speech

\* repo.GetFile(ctx, job.FileID) returns a row
FileFoundAlways(f) == TRUE
FileFound(f) == BagIn(f, fileRows)

\* processIndexJob from pre-flight to the first blocking call.  cancelAt: when
\* the context is cancelled: not in this step ("no"), between the listing and
\* the handler's first line ("entry"), or between the ctx.Err() check and
\* GetFile ("later"); a cancellation after GetFile has the effect of one that
\* comes while the first step runs.  probe: what doctor.Get returns (NoCaps
\* included), probeErr: it returns an error.
ProcessIndex(cancelAt, probe, probeErr) ==
    /\ InTick /\ HasNext
    /\ jobs[Next0].type = JobTypeIndex
    /\ LogReset /\ stoppedPending' = stoppedPending
    /\ ctxDone' = (cancelAt # "no")
    /\ LET id == Next0
           runJs == UpdateJobStatus(jobs, TRUE, id, JobStatusRunning, "", now)
           log(pre, c, sp, ws) ==
               lastJob' = [job |-> id, pre |-> pre, caps |-> c, speech |-> sp,
                           faces |-> IF "faces" \in ws THEN "run" ELSE "none",
                           scenes |-> IF "scenes" \in ws THEN "run" ELSE "none",
                           found |-> 0]
           \* a refusal before the row is marked running; live: the context the
           \* write is made with is not cancelled
           refuse(live, msg, pre) ==
               /\ jobs' = UpdateJobStatus(jobs, live, id, JobStatusFailed, msg, now)
               /\ HandlerDone
               /\ log(pre, NoCaps, "none", {})
       IN IF ~cfg.runner
          THEN /\ cancelAt # "later"
               /\ refuse(cancelAt = "no", "pipeline runner not configured", "norunner")
          ELSE IF cancelAt = "entry"
          THEN \* written with context.WithoutCancel
               refuse(TRUE, "index job cancelled", "cancelled")
          ELSE IF ~FileFound(jobs[id].file)
          THEN refuse(cancelAt = "no", "file not found", "nofile")
          ELSE IF cancelAt = "later"
          THEN \* GetFile fails on the cancelled context
               refuse(FALSE, "file not found", "interrupted")
          ELSE IF probeErr
          THEN /\ jobs' = UpdateJobStatus(runJs, TRUE, id, JobStatusFailed,
                                          "doctor probe failed", now)
               /\ HandlerDone
               /\ log("probe", NoCaps, "none", {})
          ELSE IF ~probe.speech /\ ~probe.faces /\ ~probe.scenes
          THEN /\ jobs' = UpdateJobStatus(runJs, TRUE, id, JobStatusFailed,
                                 "no pipeline capabilities available", now)
               /\ HandlerDone
               /\ log("nocaps", NoCaps, "none", {})
          ELSE IF RunsSpeech(probe)
          THEN /\ jobs' = runJs
               /\ pc' = "speech"
               /\ cur' = id
               /\ caps' = probe
               /\ log("ok", probe, "run", {})
               /\ UNCHANGED <<speechOK, completedSteps, firstErr,
                              parallelDone, worker, results>>
          ELSE IF Launched(probe, FALSE) # {}
          THEN /\ jobs' = runJs
               /\ pc' = "fanin"
               /\ cur' = id
               /\ caps' = probe
               /\ worker' = [w \in Workers |->
                               IF w \in Launched(probe, FALSE) THEN "run" ELSE "off"]
               /\ log("ok", probe, "none", Launched(probe, FALSE))
               /\ UNCHANGED <<speechOK, completedSteps, firstErr,
                              parallelDone, results>>
          ELSE \* scenes only: no step runs, the job completes
               /\ jobs' = UpdateJobStatus(runJs, TRUE, id, JobStatusCompleted,
                                          "", now)
               /\ HandlerDone
               /\ log("ok", probe, "none", {})
    /\ UNCHANGED <<sources, fileRows, DiskVars, now, stage, cfg, running, paused,
                   stoppedRunning, attempts, doctor, delay, place, refused, ahead, poll>>

\* the error a step ends with, "" for none: the call's error, a nonzero exit,
\* or an output that ValidateOutput / ValidateSceneOutput rejects
StepErrorGeneric(name, out) == IF out = "ok" THEN "" ELSE "pipeline failed"
StepErrorUnvalidated(name, out) ==
    IF out \in {"ok", "invalid"} THEN ""
    ELSE IF out = "error" THEN name \o " pipeline error"
    ELSE name \o " pipeline exited 1"
StepError(name, out) ==
    IF out = "ok" THEN ""
    ELSE IF out = "error" THEN name \o " pipeline error"
    ELSE IF out = "exit" THEN name \o " pipeline exited 1"
    ELSE name \o " output invalid"

\* RunSpeech returns and its output is validated; out is how the step went
SpeechReturn(out) ==
    /\ stage = "up" /\ pc = "speech"
    /\ LET live == ~ctxDone
           err == StepError("speech", out)
           launch == Launched(caps, TRUE)
           js1 == UpdateJobProgress(jobs, live, cur, ProgressOf(1, TotalSteps(caps)), now)
           log(ws) == lastJob' = [lastJob EXCEPT
                          !.speech = out,
                          !.faces = IF "faces" \in ws THEN "run" ELSE "none",
                          !.scenes = IF "scenes" \in ws THEN "run" ELSE "none"]
       IN IF err # ""
          THEN /\ jobs' = UpdateJobStatus(jobs, live, cur, JobStatusFailed, err, now)
               /\ HandlerReset
               /\ log({})
          ELSE IF launch # {}
          THEN /\ jobs' = js1
               /\ pc' = "fanin"
               /\ speechOK' = TRUE
               /\ completedSteps' = 1
               /\ worker' = [w \in Workers |-> IF w \in launch THEN "run" ELSE "off"]
               /\ log(launch)
               /\ UNCHANGED <<cur, caps, firstErr, parallelDone, results>>
          ELSE \* speech was the only step
               /\ jobs' = UpdateJobStatus(js1, live, cur, JobStatusCompleted, "", now)
               /\ HandlerReset
               /\ log({})
    /\ LogReset /\ stoppedPending' = {}
    /\ UNCHANGED <<sources, fileRows, DiskVars, now, stage, cfg, running, paused,
                   ctxDone, stoppedRunning, attempts, doctor, delay, place, refused, ahead, poll>>

\* a worker goroutine returns: its subprocess ended, by itself or killed through
\* parallelCtx, and its output was validated; it sends its result (the channel
\* has a slot for it) and is done
WorkerReturn(w, out, art) ==
    /\ stage = "up"
    /\ worker[w] = "run"
    /\ LET err == StepError(w, out)
       IN /\ worker' = [worker EXCEPT ![w] = IF err = "" THEN "done" ELSE "failed"]
          /\ results' = Append(results, [name |-> w, err |-> err])
    /\ art \in {"zero", "ok"}
    \* a subprocess that exits with success has written result.json, one that
    \* validates or one that cannot be read; the artifact of a file whose row
    \* was deleted meanwhile is out of reach
    /\ IF out \in {"ok", "invalid"} /\ w = "scenes" /\ jobs[cur].file # NoFile
       THEN sceneArt' = [sceneArt EXCEPT ![jobs[cur].file] =
                            IF out = "ok" THEN art ELSE "none"]
       ELSE UNCHANGED sceneArt
    /\ LogReset /\ stoppedPending' = {}
    /\ lastJob' = [lastJob EXCEPT ![w] = out]
    /\ UNCHANGED <<jobs, sources, fileRows, thumbDir, now, stage, cfg, running,
                   paused, ctxDone, pc, cur, caps, speechOK, completedSteps, firstErr,
                   parallelDone, stoppedRunning, attempts, doctor, delay, place, refused, ahead, poll>>

\* if firstErr == nil { firstErr = sr.err }
KeepLast(ferr, err) == err
KeepFirst(ferr, err) == IF ferr = "" THEN err ELSE ferr

\* for sr := range results: one receive
FanInRecv ==
    /\ stage = "up" /\ pc = "fanin"
    /\ results # <<>>
    /\ results' = Tail(results)
    /\ LET sr == Head(results)
       IN IF sr.err # ""
          THEN /\ firstErr' = KeepFirst(firstErr, sr.err)
               /\ parallelDone' = TRUE
               /\ UNCHANGED <<jobs, completedSteps>>
          ELSE IF firstErr = ""
          THEN /\ completedSteps' = completedSteps + 1
               /\ jobs' = UpdateJobProgress(jobs, ~ctxDone, cur,
                              ProgressOf(completedSteps + 1, TotalSteps(caps)), now)
               /\ UNCHANGED <<firstErr, parallelDone>>
          ELSE UNCHANGED <<jobs, completedSteps, firstErr, parallelDone>>
    /\ LogReset /\ lastJob' = lastJob /\ stoppedPending' = {}
    /\ UNCHANGED <<sources, fileRows, DiskVars, now, stage, cfg, running, paused,
                   ctxDone, pc, cur, caps, speechOK, worker, stoppedRunning, attempts, doctor, delay, place, refused, ahead, poll>>

\* the range loop ends: wg.Wait() returned and close(results) was seen
FanInLeavesOnError(res, wk, ferr) ==
    ferr # "" \/ (res = <<>> /\ \A w \in Workers : wk[w] # "run")
FanInLeaves(res, wk, ferr) ==
    res = <<>> /\ \A w \in Workers : wk[w] # "run"

\* processIndexJob after the range loop
FanInDone ==
    /\ stage = "up" /\ pc = "fanin"
    /\ FanInLeaves(results, worker, firstErr)
    /\ fanLog' = [n |-> Cardinality({w \in Workers : worker[w] # "off"}),
                  errs |-> Cardinality({w \in Workers : worker[w] = "failed"}),
                  first |-> firstErr,
                  failed |-> firstErr # "", cancelled |-> ctxDone]
    /\ IF firstErr # ""
       THEN /\ jobs' = UpdateJobStatus(jobs, ~ctxDone, cur, JobStatusFailed, firstErr, now)
            /\ pc' = "idle"
            /\ caps' = NoCaps /\ speechOK' = FALSE
            /\ UNCHANGED cur
       ELSE /\ jobs' = UpdateJobStatus(jobs, ~ctxDone, cur, JobStatusCompleted, "", now)
            /\ IF UploadWanted(caps, speechOK)
               THEN pc' = "upload" /\ UNCHANGED <<cur, caps, speechOK>>
               ELSE pc' = "idle" /\ caps' = NoCaps /\ speechOK' = FALSE
                    /\ UNCHANGED cur
    \* a goroutine that has not returned goes on running
    /\ worker' = [w \in Workers |-> IF worker[w] = "run" THEN "run" ELSE "off"]
    /\ completedSteps' = 0
    /\ firstErr' = ""
    /\ parallelDone' = FALSE
    /\ UNCHANGED <<sources, fileRows, DiskVars, now, stage, cfg, running, paused,
                   ctxDone, results, stoppedRunning, attempts, doctor, delay, place, refused, ahead, poll>>
    /\ lastRetry' = NoRetry /\ lastUp' = NoUp /\ lastJob' = lastJob /\ stoppedPending' = {}

\* ----------------------------------------------------------------- upload
UploadErrorText(res) ==
    IF res = NotUploadError THEN "http request failed"
    ELSE "scene upload failed: HTTP " \o ToString(res)

\* what a handler reads at <artifactsDir>/<file.ID>/scenes/result.json; it holds
\* the file it loaded at its start, also when the row is deleted meanwhile
ArtifactRead(f, art) ==
    IF f # NoFile THEN art = sceneArt[f] ELSE art \in {"zero", "ok"}

\* the retry job of the first attempt
RetryJobAttemptOne(f, err, t) ==
    Job(JobTypeUploadScenes, JobStatusPending, NoSource, f, 1, err, t)
RetryJob(f, err, t) ==
    Job(JobTypeUploadScenes, JobStatusPending, NoSource, f, 0, err, t)

MarkerJobPending(f, t) ==
    Job(JobTypeUploadScenes, JobStatusPending, NoSource, f, 0, "", t)
\* the marker job of a successful first attempt
MarkerJob(f, t) ==
    Job(JobTypeUploadScenes, JobStatusCompleted, NoSource, f, 0, "", t)

\* errors.As(err, &uploadErr) && !uploadErr.IsRetryable()
Permanent(res) == res \in StatusCodes /\ ~IsRetryable(res)

\* the row uploadScenesToCloud adds after the uploader has answered with
\* something other than a permanent error; it writes no other row
InlineUploadWritesFailsJob(js, id, canInsert, res, t) ==
    IF res = UploadOK
    THEN CreateJob(js, canInsert, MarkerJob(js[id].file, t))
    ELSE UpdateJobStatus(
            CreateJob(js, canInsert, RetryJob(js[id].file, UploadErrorText(res), t)),
            canInsert, id, JobStatusFailed, UploadErrorText(res), t)
InlineUploadWrites(js, id, canInsert, res, t) ==
    CreateJob(js, canInsert,
              IF res = UploadOK THEN MarkerJob(js[id].file, t)
              ELSE RetryJob(js[id].file, UploadErrorText(res), t))

\* uploadScenesToCloud: art is the artifact read, libOK whether a library id is
\* resolved, res what UploadScenes returns.  The INSERT needs a live context
\* (the context may be cancelled before the call or after its answer) and, for
\* its file_id, the file row.
InlineUpload(art, libOK, res) ==
    /\ stage = "up" /\ pc = "upload"
    /\ LET f == jobs[cur].file
           live == ~ctxDone
           canInsert == live /\ f # NoFile
           called == art = "ok" /\ libOK
       IN /\ ArtifactRead(f, art)
          /\ res \in UploadResults
          /\ ~called => res = NotUploadError
          /\ lastUp' = [kind |-> "inline", job |-> cur, called |-> called,
                        outcome |-> res, live |-> canInsert]
          /\ IF ~called \/ Permanent(res)
             THEN UNCHANGED jobs
             ELSE /\ canInsert => Len(jobs) < MaxJobs
                  /\ jobs' = InlineUploadWrites(jobs, cur, canInsert, res, now)
          /\ refused' = IF called /\ Permanent(res) /\ f # NoFile
                        THEN refused \cup {f} ELSE refused
    /\ HandlerReset
    /\ UNCHANGED <<sources, fileRows, DiskVars, now, stage, cfg, running, paused,
                   ctxDone, stoppedRunning, attempts, doctor, delay, place, ahead, poll>>
    /\ lastRetry' = NoRetry /\ fanLog' = NoFan /\ lastJob' = NoJob /\ stoppedPending' = {}

\* attempt > maxRetries
NoAttemptLeftAfterSix(attempt) == attempt > maxRetries + 1
NoAttemptLeft(attempt) == attempt > maxRetries

\* time.Since(job.UpdatedAt) < delay, on the row as scanJobs returned it
InBackoff(row, t) ==
    Less(Seconds(Since(t, UpdatedAt(row))), uploadBackoff(row.progress))

\* processUploadScenesJob up to the call of uploadScenesToCloudRetry
ProcessUpload ==
    /\ InTick /\ HasNext
    /\ jobs[Next0].type = JobTypeUploadScenes
    /\ lastUp' = NoUp /\ fanLog' = NoFan
    /\ lastJob' = Dispatched(Next0) /\ stoppedPending' = stoppedPending
    /\ LET id == Next0
           row == jobs[id]
           attempt == row.progress + 1
           \* what has elapsed since the row's updated_at, as stored
           elapsed == (now - row.updated.t) * TickSeconds
           log(act) == lastRetry' = [job |-> id, n |-> row.progress,
                                     early |-> Less(Seconds(elapsed),
                                                    uploadBackoff(row.progress)),
                                     act |-> act]
           fail(msg) == /\ jobs' = UpdateJobStatus(jobs, TRUE, id, JobStatusFailed, msg, now)
                        /\ HandlerDone
       IN IF InBackoff(row, now)
          THEN log("wait") /\ UNCHANGED jobs /\ HandlerDone
          ELSE IF NoAttemptLeft(attempt)
          THEN log("exhausted")
               /\ fail("max retries (" \o ToString(maxRetries) \o ") exceeded: "
                       \o row.error)
          ELSE IF ~cfg.runner
          THEN log("refused") /\ fail("pipeline runner not configured")
          ELSE IF ~cfg.cloud
          THEN log("refused") /\ fail("cloud client not configured")
          ELSE IF ~BagIn(row.file, fileRows)
          THEN log("refused") /\ fail("file not found for retry")
          ELSE /\ log("run")
               /\ jobs' = UpdateJobProgress(
                             UpdateJobStatus(jobs, TRUE, id, JobStatusRunning, "", now),
                             TRUE, id, attempt, now)
               /\ pc' = "retry"
               /\ cur' = id
               /\ UNCHANGED <<caps, speechOK, completedSteps, firstErr, parallelDone,
                              worker, results>>
    /\ UNCHANGED <<sources, fileRows, DiskVars, now, stage, cfg, running, paused,
                   ctxDone, stoppedRunning, attempts, doctor, delay, place, refused, ahead, poll>>

\* the status uploadScenesToCloudRetry writes after a failed UploadScenes call
StatusAfterFailureAlwaysFailed(res) == JobStatusFailed
StatusAfterFailure(res) ==
    IF Permanent(res) THEN JobStatusFailed ELSE JobStatusPending

\* uploadScenesToCloudRetry
RetryReturn(art, libOK, res) ==
    /\ stage = "up" /\ pc = "retry"
    /\ LET f == jobs[cur].file
           live == ~ctxDone
           called == art = "ok" /\ libOK
           set(status, msg) == jobs' = UpdateJobStatus(jobs, live, cur, status, msg, now)
       IN /\ ArtifactRead(f, art)
          /\ res \in UploadResults
          /\ ~called => res = NotUploadError
          /\ lastUp' = [kind |-> "retry", job |-> cur, called |-> called,
                        outcome |-> res, live |-> live]
          /\ attempts' = IF called THEN [attempts EXCEPT ![cur] = @ + 1] ELSE attempts
          /\ doctor' = doctor /\ delay' = delay /\ place' = place /\ refused' = refused /\ ahead' = ahead /\ poll' = poll
          /\ IF art = "none" THEN set(JobStatusFailed, "cannot read scene output")
             ELSE IF art = "zero" THEN set(JobStatusCompleted, "")
             ELSE IF ~libOK THEN set(JobStatusFailed, "no library available")
             ELSE IF res = UploadOK THEN set(JobStatusCompleted, "")
             ELSE IF Permanent(res)
             THEN set(StatusAfterFailure(res),
                      "permanent error (HTTP " \o ToString(res) \o ")")
             ELSE set(StatusAfterFailure(res), UploadErrorText(res))
    /\ HandlerReset
    /\ UNCHANGED <<sources, fileRows, DiskVars, now, stage, cfg, running, paused,
                   ctxDone, stoppedRunning>>
    /\ lastRetry' = NoRetry /\ fanLog' = NoFan /\ lastJob' = NoJob /\ stoppedPending' = {}

\* ------------------------------------------------------------- thumbnails
\* processGenerateThumbnailsJob up to the extraction loop
ProcessThumbs ==
    /\ InTick /\ HasNext
    /\ jobs[Next0].type = JobTypeGenerateThumbnails
    /\ LET id == Next0
           runJs == UpdateJobStatus(jobs, TRUE, id, JobStatusRunning, "", now)
       IN IF ~cfg.runner
          THEN /\ jobs' = UpdateJobStatus(jobs, TRUE, id, JobStatusFailed,
                                          "thumbnail generation not configured", now)
               /\ HandlerDone
          ELSE IF ~BagIn(jobs[id].file, fileRows)
          THEN /\ jobs' = UpdateJobStatus(runJs, TRUE, id, JobStatusFailed,
                                          "file not found", now)
               /\ HandlerDone
          ELSE IF sceneArt[jobs[id].file] = "none"
          THEN /\ jobs' = UpdateJobStatus(runJs, TRUE, id, JobStatusFailed,
                                          "cannot read scene result", now)
               /\ HandlerDone
          ELSE /\ jobs' = runJs
               /\ pc' = "thumbs"
               /\ cur' = id
               /\ UNCHANGED <<caps, speechOK, completedSteps, firstErr, parallelDone,
                              worker, results>>
    /\ LogReset /\ stoppedPending' = stoppedPending
    /\ lastJob' = Dispatched(Next0)
    /\ UNCHANGED <<sources, fileRows, DiskVars, now, stage, cfg, running, paused,
                   ctxDone, stoppedRunning, attempts, doctor, delay, place, refused, ahead, poll>>

\* the extraction loop is over; wrote: some thumbnail file exists afterwards
ThumbsReturn(wrote) ==
    /\ stage = "up" /\ pc = "thumbs"
    /\ LET f == jobs[cur].file
       IN thumbDir' = IF wrote /\ f # NoFile /\ sceneArt[f] = "ok"
                      THEN thumbDir \cup {f} ELSE thumbDir
    /\ jobs' = UpdateJobStatus(jobs, ~ctxDone, cur, JobStatusCompleted, "", now)
    /\ HandlerReset
    /\ LogPass
    /\ UNCHANGED <<sources, fileRows, sceneArt, now, stage, cfg, running, paused,
                   ctxDone, stoppedRunning, attempts, doctor, delay, place, refused, ahead, poll>>

\* ----------------------------------------------------------- specification
Next ==
    \/ Advance
    \/ Kill
    \/ Open
    \/ Start
    \/ Cancel
    \/ LoopExit
    \/ Pause
    \/ Resume
    \/ AddFolder
    \/ RemoveSource
    \/ ScanSource
    \/ Tick
    \/ TickReturn
    \/ ProcessScan
    \/ \E found \in SUBSET Files : \E upserted \in SUBSET found :
          \E written \in 0..NumFiles : ScanReturn(found, upserted, written)
    \/ ScanCreateIndexJobs
    \/ \E cancelAt \in {"no", "entry", "later"} : \E probeErr \in BOOLEAN :
          \E probe \in AllCaps : ProcessIndex(cancelAt, probe, probeErr)
    \/ \E out \in StepOutcomes : SpeechReturn(out)
    \/ \E w \in Workers : \E out \in StepOutcomes : \E art \in {"zero", "ok"} :
          WorkerReturn(w, out, art)
    \/ FanInRecv
    \/ FanInDone
    \/ \E art \in {"none", "zero", "ok"} : \E libOK \in BOOLEAN :
          \E res \in UploadResults : InlineUpload(art, libOK, res)
    \/ ProcessUpload
    \/ \E art \in {"none", "zero", "ok"} : \E libOK \in BOOLEAN :
          \E res \in UploadResults : RetryReturn(art, libOK, res)
    \/ ProcessThumbs
    \/ \E wrote \in BOOLEAN : ThumbsReturn(wrote)

Spec == Init /\ [][Next]_vars

\* what the process does of its own accord: main's call of Start, the ticker
\* case of the loop, processNextJob and the handlers it calls, and the returns
\* of the subprocesses and HTTP calls they wait for
RunnerStep ==
    \/ Start
    \/ Tick
    \/ TickReturn
    \/ ProcessScan
    \/ \E found \in SUBSET Files : \E upserted \in SUBSET found :
          \E written \in 0..NumFiles : ScanReturn(found, upserted, written)
    \/ ScanCreateIndexJobs
    \/ \E cancelAt \in {"no", "entry", "later"} : \E probeErr \in BOOLEAN :
          \E probe \in AllCaps : ProcessIndex(cancelAt, probe, probeErr)
    \/ \E out \in StepOutcomes : SpeechReturn(out)
    \/ \E w \in Workers : \E out \in StepOutcomes :
          \E art \in {"zero", "ok"} : WorkerReturn(w, out, art)
    \/ FanInRecv
    \/ FanInDone
    \/ \E art \in {"none", "zero", "ok"} : \E libOK \in BOOLEAN :
          \E res \in UploadResults : InlineUpload(art, libOK, res)
    \/ ProcessUpload
    \/ \E art \in {"none", "zero", "ok"} : \E libOK \in BOOLEAN :
          \E res \in UploadResults : RetryReturn(art, libOK, res)
    \/ ProcessThumbs
    \/ \E wrote \in BOOLEAN : ThumbsReturn(wrote)

\* The scheduling of the process: the runner's goroutines are scheduled and
\* what they wait for returns, so the process does not stand still while it
\* has a step to take.  Nothing obliges the user, the signal handler or the
\* clock.
Fairness == WF_vars(RunnerStep)

\* ------------------------------------------- backfillCloudUploads by itself
\* The job tables backfillCloudUploads is applied to.  It looks at the index
\* and upload_scenes rows only, so the tables hold rows of these two types, in
\* any status, with or without a file.
BackfillRows ==
    {Job(ty, st, IF ty = JobTypeIndex THEN TheSource ELSE NoSource, f, 0, "", 0) :
        ty \in {JobTypeIndex, JobTypeUploadScenes},
        st \in {JobStatusPending, JobStatusRunning, JobStatusCompleted, JobStatusFailed},
        f \in Files \cup {NoFile}}
BackfillTables ==
    UNION {[1..n -> BackfillRows] : n \in 0..(MaxJobs - NumFiles)}

\* a process with a pipeline runner and a cloud client has opened a database
\* with such a table; the scenes artifact of a file exists or not
BackfillInit ==
    /\ jobs \in BackfillTables
    /\ sources = {TheSource}
    /\ fileRows = SetToBag(Files)
    /\ sceneArt \in [Files -> {"none", "ok"}]
    /\ thumbDir = {}
    /\ now = 0
    /\ stage = "opened"
    /\ cfg = [runner |-> TRUE, cloud |-> TRUE]
    /\ running = FALSE
    /\ paused = FALSE
    /\ ctxDone = FALSE
    /\ pc = "idle"
    /\ cur = 0
    /\ caps = NoCaps
    /\ speechOK = FALSE
    /\ completedSteps = 0
    /\ firstErr = ""
    /\ parallelDone = FALSE
    /\ worker = [w \in Workers |-> "off"]
    /\ results = <<>>
    /\ stoppedRunning = {}
    /\ attempts = [i \in 1..MaxJobs |-> 0]
    /\ lastRetry = NoRetry
    /\ lastUp = NoUp
    /\ fanLog = NoFan
    /\ lastJob = NoJob
    /\ stoppedPending = {}
    /\ delay = NoDelay
    /\ refused = {}
    /\ place = InRoot
    /\ ahead = NoneAhead
    /\ poll = NoPoll
    /\ doctor = NoDoctor

\* one run of backfillCloudUploads
Backfill ==
    /\ stage = "opened"
    /\ cfg.cloud /\ cfg.runner
    /\ \E ord \in Orders(UploadBackfillFiles(jobs, sceneArt)) :
          jobs' = CreatePending(jobs, JobTypeUploadScenes, ord, now)
    /\ UNCHANGED <<sources, fileRows, DiskVars, now, stage, cfg, running, paused,
                   ctxDone, HandlerVars, stoppedRunning, stoppedPending, attempts,
                   lastRetry, lastUp, fanLog, lastJob, doctor, delay, place, refused, ahead, poll>>

BackfillNext == Backfill

BackfillSpec == BackfillInit /\ [][BackfillNext]_vars

\* ------------------------------------------------- ExecuteScan by itself
\* The index rows createIndexJobs may find when a scan runs: of any status,
\* for a file or with the file reference nulled.
ScanIndexRows ==
    {Job(JobTypeIndex, st, TheSource, f, 0, "", 0) :
        st \in {JobStatusPending, JobStatusRunning, JobStatusCompleted, JobStatusFailed},
        f \in Files \cup {NoFile}}
ScanTables == UNION {[1..n -> ScanIndexRows] : n \in 0..(MaxJobs - NumFiles - 1)}

\* processNextJob has dispatched a scan job of the source and ExecuteScan has
\* written it running; the table holds the index rows of earlier scans, whose
\* files are catalogued
ScanInit ==
    /\ \E tbl \in ScanTables :
          jobs = Append(tbl, Job(JobTypeScan, JobStatusRunning, TheSource, NoFile, 0, "", 0))
    /\ sources = {TheSource}
    /\ fileRows \in {EmptyBag, SetToBag(Files)}
    /\ \A i \in DOMAIN jobs : jobs[i].file # NoFile => BagIn(jobs[i].file, fileRows)
    /\ sceneArt = [f \in Files |-> "none"]
    /\ thumbDir = {}
    /\ now = 0
    /\ stage = "up"
    /\ cfg = [runner |-> TRUE, cloud |-> FALSE]
    /\ running = TRUE
    /\ paused = FALSE
    /\ ctxDone = FALSE
    /\ pc = "scan"
    /\ cur = Len(jobs)
    /\ caps = NoCaps
    /\ speechOK = FALSE
    /\ completedSteps = 0
    /\ firstErr = ""
    /\ parallelDone = FALSE
    /\ worker = [w \in Workers |-> "off"]
    /\ results = <<>>
    /\ stoppedRunning = {}
    /\ attempts = [i \in 1..MaxJobs |-> 0]
    /\ lastRetry = NoRetry
    /\ lastUp = NoUp
    /\ fanLog = NoFan
    /\ lastJob = Dispatched(Len(jobs))
    /\ stoppedPending = {}
    /\ delay = NoDelay
    /\ refused = {}
    /\ place \in [Files -> Chains]
    /\ ahead = NoneAhead
    /\ poll = NoPoll
    /\ \A f \in Files : Hidden(place[f]) => ~BagIn(f, fileRows)
    /\ doctor = NoDoctor

ScanNext ==
    \/ \E found \in SUBSET Files : \E upserted \in SUBSET found :
          \E written \in 0..NumFiles : ScanReturn(found, upserted, written)
    \/ ScanCreateIndexJobs
    \/ Cancel
    \/ RemoveSource

ScanSpec == ScanInit /\ [][ScanNext]_vars

\* ------------------------------------- the listings of the duplicate guards
\* The job tables the guards list: rows of a file's index, upload_scenes and
\* generate_thumbnails jobs, in any status db.New leaves (markInterruptedJobs
\* has failed the running ones).
ListRows ==
    {Job(ty, st, IF ty = JobTypeIndex THEN TheSource ELSE NoSource, f, 0, "", 0) :
        ty \in {JobTypeIndex, JobTypeUploadScenes, JobTypeGenerateThumbnails},
        st \in {JobStatusPending, JobStatusCompleted, JobStatusFailed},
        f \in Files}
ListTables == UNION {[1..n -> ListRows] : n \in 0..(MaxJobs - NumFiles)}
\* a process with a pipeline runner and a cloud client has opened a database
\* with such a table, in a library that holds other files too
ListInit ==
    /\ jobs \in ListTables
    /\ sources = {TheSource}
    /\ fileRows = SetToBag(Files)
    /\ sceneArt \in [Files -> {"none", "ok"}]
    /\ thumbDir \in SUBSET Files
    /\ now = 0
    /\ stage = "opened"
    /\ cfg = [runner |-> TRUE, cloud |-> TRUE]
    /\ running = FALSE
    /\ paused = FALSE
    /\ ctxDone = FALSE
    /\ pc = "idle"
    /\ cur = 0
    /\ caps = NoCaps
    /\ speechOK = FALSE
    /\ completedSteps = 0
    /\ firstErr = ""
    /\ parallelDone = FALSE
    /\ worker = [w \in Workers |-> "off"]
    /\ results = <<>>
    /\ stoppedRunning = {}
    /\ attempts = [i \in 1..MaxJobs |-> 0]
    /\ lastRetry = NoRetry
    /\ lastUp = NoUp
    /\ fanLog = NoFan
    /\ lastJob = NoJob
    /\ stoppedPending = {}
    /\ delay = NoDelay
    /\ refused = {}
    /\ place = InRoot
    \* how many job rows of other files have been created since: none, or as
    \* many as a listing holds, give or take one
    /\ \E n \in {0, thumbJobsListLimit - 1, thumbJobsListLimit,
                 indexJobsListLimit - 1, indexJobsListLimit} :
          ahead = [i \in 1..MaxJobs |-> IF i <= Len(jobs) THEN n ELSE 0]
    /\ poll = NoPoll
    /\ doctor = NoDoctor

\* the process starts, and the source is scanned again
ListNext ==
    \/ Start
    \/ ScanSource
    \/ Tick
    \/ ProcessScan
    \/ \E found \in SUBSET Files : \E upserted \in SUBSET found :
          \E written \in 0..NumFiles : ScanReturn(found, upserted, written)
    \/ ScanCreateIndexJobs

ListSpec == ListInit /\ [][ListNext]_vars

\* ------------------------------------------------- Start called once more
\* a process has opened a database that holds jobs of a file
StartInit == ListInit /\ ahead = NoneAhead

StartNext ==
    \/ Start
    \/ StartAgain
    \/ Cancel
    \/ LoopExit
    \/ Tick
    \/ TickReturn

StartSpec == StartInit /\ [][StartNext]_vars

\* ------------------------------------------------ a runner that keeps ticking
\* A process has opened a database that holds jobs of a file and is neither
\* stopped nor paused: the runner takes its steps, the source is scanned, and
\* the wall clock goes on (time passes whatever the process does).
TickingNext ==
    \/ RunnerStep
    \/ Advance
    \/ ScanSource

\* the database holds at most one job when the process opens it
OneJobInit == StartInit /\ Len(jobs) <= 1

TickingSpec ==
    /\ OneJobInit
    /\ [][TickingNext]_vars
    /\ WF_vars(RunnerStep) /\ WF_vars(Advance)

\* Such a process, stopped and started again at any moment while it works
\* through the jobs of the file.
FairNext ==
    \/ Kill
    \/ Open
    \/ Advance
    \/ Start
    \/ Tick
    \/ TickReturn
    \/ \E cancelAt \in {"no", "entry", "later"} : \E probeErr \in BOOLEAN :
          \E probe \in AllCaps : ProcessIndex(cancelAt, probe, probeErr)
    \/ \E out \in StepOutcomes : SpeechReturn(out)
    \/ \E w \in Workers : \E out \in StepOutcomes :
          \E art \in {"zero", "ok"} : WorkerReturn(w, out, art)
    \/ FanInRecv
    \/ FanInDone
    \/ \E art \in {"none", "zero", "ok"} : \E libOK \in BOOLEAN :
          \E res \in UploadResults : InlineUpload(art, libOK, res)
    \/ ProcessUpload
    \/ \E art \in {"none", "zero", "ok"} : \E libOK \in BOOLEAN :
          \E res \in UploadResults : RetryReturn(art, libOK, res)
    \/ ProcessThumbs
    \/ \E wrote \in BOOLEAN : ThumbsReturn(wrote)

FairSpec ==
    /\ OneJobInit
    /\ [][FairNext]_vars
    /\ Fairness

\* ------------------------------------- the scene upload of one indexed file
\* processIndexJob has written the index job of a file completed, with a
\* cloud client configured and the scenes step run, and is about to call
\* uploadScenesToCloud; the table holds that index job
UploadInit ==
    /\ \E f \in Files :
          /\ jobs = <<Job(JobTypeIndex, JobStatusCompleted, TheSource, f, 100, "", 0)>>
          /\ sceneArt = [g \in Files |-> IF g = f THEN "ok" ELSE "none"]
    /\ sources = {TheSource}
    /\ fileRows = SetToBag(Files)
    /\ thumbDir = {}
    /\ now = 0
    /\ stage = "up"
    /\ cfg = [runner |-> TRUE, cloud |-> TRUE]
    /\ running = TRUE
    /\ paused = FALSE
    /\ ctxDone = FALSE
    /\ pc = "upload"
    /\ cur = 1
    /\ caps = [speech |-> TRUE, faces |-> FALSE, scenes |-> TRUE]
    /\ speechOK = TRUE
    /\ completedSteps = 0
    /\ firstErr = ""
    /\ parallelDone = FALSE
    /\ worker = [w \in Workers |-> "off"]
    /\ results = <<>>
    /\ stoppedRunning = {}
    /\ attempts = [i \in 1..MaxJobs |-> 0]
    /\ lastRetry = NoRetry
    /\ lastUp = NoUp
    /\ fanLog = [NoFan EXCEPT !.n = 1]
    /\ lastJob = [NoJob EXCEPT !.job = 1, !.pre = "ok", !.caps = caps,
                               !.speech = "ok", !.scenes = "ok"]
    /\ stoppedPending = {}
    /\ delay = NoDelay
    /\ refused = {}
    /\ place = InRoot
    /\ ahead = NoneAhead
    /\ poll = NoPoll
    /\ doctor = NoDoctor

\* the upload, the clock, a stop and restart of the process, and the poll loop
\* on the upload_scenes and generate_thumbnails rows
UploadNext ==
    \/ \E art \in {"none", "zero", "ok"} : \E libOK \in BOOLEAN :
          \E res \in UploadResults : InlineUpload(art, libOK, res)
    \/ Advance
    \/ Kill
    \/ Open
    \/ Start
    \/ Tick
    \/ TickReturn
    \/ ProcessUpload
    \/ \E art \in {"none", "zero", "ok"} : \E libOK \in BOOLEAN :
          \E res \in UploadResults : RetryReturn(art, libOK, res)
    \/ ProcessThumbs
    \/ \E wrote \in BOOLEAN : ThumbsReturn(wrote)

UploadSpec == UploadInit /\ [][UploadNext]_vars

\* --------------------------------------------------- uploadBackoff by itself
\* everything but delay
AllButDelay == <<jobs, sources, fileRows, sceneArt, thumbDir, now, stage, cfg,
                 running, paused, ctxDone, pc, cur, caps, speechOK,
                 completedSteps, firstErr, parallelDone, worker, results,
                 stoppedRunning, stoppedPending, attempts, lastRetry, lastUp,
                 fanLog, lastJob, doctor, place, refused, ahead, poll>>

\* job.Progress of the upload job at hand is any attempt number
UploadBackoffInit ==
    /\ jobs = <<>>
    /\ sources = {}
    /\ fileRows = EmptyBag
    /\ sceneArt = [f \in Files |-> "none"]
    /\ thumbDir = {}
    /\ now = 0
    /\ stage = "up"
    /\ cfg \in {c \in [runner : BOOLEAN, cloud : BOOLEAN] : c.runner /\ c.cloud}
    /\ running = TRUE
    /\ paused = FALSE
    /\ ctxDone = FALSE
    /\ pc = "idle"
    /\ cur = 0
    /\ caps = NoCaps
    /\ speechOK = FALSE
    /\ completedSteps = 0
    /\ firstErr = ""
    /\ parallelDone = FALSE
    /\ worker = [w \in Workers |-> "off"]
    /\ results = <<>>
    /\ stoppedRunning = {}
    /\ attempts = [i \in 1..MaxJobs |-> 0]
    /\ lastRetry = NoRetry
    /\ lastUp = NoUp
    /\ fanLog = NoFan
    /\ lastJob = NoJob
    /\ stoppedPending = {}
    /\ doctor = NoDoctor
    /\ \E n \in 0..MaxAttempt : delay = [NoDelay EXCEPT !.attempt = n]
    /\ place = InRoot
    /\ ahead = NoneAhead
    /\ poll = NoPoll
    /\ refused = {}

\* delay := uploadBackoff(job.Progress)
CallUploadBackoff ==
    /\ ~delay.set
    /\ delay' = [delay EXCEPT !.set = TRUE,
                              !.backoff = uploadBackoff(delay.attempt)]
    /\ UNCHANGED AllButDelay

\* the job's next retry row carries the next attempt number
CallUploadBackoffAgain ==
    /\ delay.set
    /\ delay.attempt < MaxAttempt
    /\ delay' = [attempt |-> delay.attempt + 1,
                 set |-> TRUE,
                 again |-> TRUE,
                 before |-> delay.backoff,
                 backoff |-> uploadBackoff(delay.attempt + 1)]
    /\ UNCHANGED AllButDelay

UploadBackoffNext == CallUploadBackoff \/ CallUploadBackoffAgain

UploadBackoffSpec == UploadBackoffInit /\ [][UploadBackoffNext]_vars

\* ---------------------------------------------------- CachedDoctor by itself
\* everything but the doctor
RunnerVars == <<jobs, sources, fileRows, sceneArt, thumbDir, now, stage, cfg,
                running, paused, ctxDone, pc, cur, caps, speechOK, completedSteps,
                firstErr, parallelDone, worker, results, stoppedRunning,
                stoppedPending, attempts, lastRetry, lastUp, fanLog, lastJob,
                delay, place, refused, ahead, poll>>

\* caller c moves to position p
DoctorAt(c, p) == [doctor.at EXCEPT ![c] = p]

\* a process with a pipeline runner is up; run()'s first Refresh has filled
\* the cache or has failed
DoctorInit ==
    /\ jobs = <<>>
    /\ sources = {}
    /\ fileRows = EmptyBag
    /\ sceneArt = [f \in Files |-> "none"]
    /\ thumbDir = {}
    /\ now = 0
    /\ stage = "up"
    /\ cfg \in {c \in [runner : BOOLEAN, cloud : BOOLEAN] : c.runner}
    /\ running = TRUE
    /\ paused = FALSE
    /\ ctxDone = FALSE
    /\ pc = "idle"
    /\ cur = 0
    /\ caps = NoCaps
    /\ speechOK = FALSE
    /\ completedSteps = 0
    /\ firstErr = ""
    /\ parallelDone = FALSE
    /\ worker = [w \in Workers |-> "off"]
    /\ results = <<>>
    /\ stoppedRunning = {}
    /\ attempts = [i \in 1..MaxJobs |-> 0]
    /\ lastRetry = NoRetry
    /\ lastUp = NoUp
    /\ fanLog = NoFan
    /\ lastJob = NoJob
    /\ stoppedPending = {}
    /\ delay = NoDelay
    /\ refused = {}
    /\ place = InRoot
    /\ ahead = NoneAhead
    /\ poll = NoPoll
    /\ \E snap \in {"nil", "fresh"} : doctor = [NoDoctor EXCEPT !.cached = snap]

\* Get is called: the caller arrives at d.mu.RLock()
CallGet(c) ==
    /\ c \in GetCallers
    /\ doctor.at[c] = "idle"
    /\ doctor' = [doctor EXCEPT !.at = DoctorAt(c, "get_rlock"),
                                !.saw[c] = "none",
                                !.probe[c] = "none",
                                !.ret[c] = NoReturn]
    /\ UNCHANGED RunnerVars

\* RWMutex.RLock returns once no Lock() is held or announced
RLockReturns(c, from, to) ==
    /\ doctor.at[c] = from
    /\ doctor.writer = "none"
    /\ doctor' = [doctor EXCEPT !.readers = @ \cup {c}, !.at = DoctorAt(c, to)]
    /\ UNCHANGED RunnerVars

GetRLock(c) == c \in GetCallers /\ RLockReturns(c, "get_rlock", "get_read")

\* d.cached != nil && time.Since(d.cached.ProbedAt) < d.ttl
CacheHitNever(cached) == FALSE
CacheHit(cached) == cached = "fresh"

\* Get under the read lock: a fresh snapshot is returned; otherwise RUnlock
\* and Refresh
GetRead(c) ==
    /\ c \in GetCallers
    /\ doctor.at[c] = "get_read"
    /\ doctor' = [doctor EXCEPT
                    !.readers = @ \ {c},
                    !.saw[c] = doctor.cached,
                    !.ret[c] = IF CacheHit(doctor.cached)
                               THEN [snap |-> doctor.cached, err |-> FALSE]
                               ELSE @,
                    !.at = DoctorAt(c, IF CacheHit(doctor.cached) THEN "idle"
                                       ELSE "refresh_lock")]
    /\ UNCHANGED RunnerVars

\* Refresh: d.mu.Lock() is called; from now on no new reader gets in
RefreshLock(c) ==
    /\ c \in GetCallers
    /\ doctor.at[c] = "refresh_lock"
    /\ doctor.writer = "none"
    /\ doctor' = [doctor EXCEPT !.writer = c, !.at = DoctorAt(c, "refresh_wait")]
    /\ UNCHANGED RunnerVars

\* Lock() returns when the readers have left; RunDoctor starts its subprocess
RefreshProbe(c) ==
    /\ c \in GetCallers
    /\ doctor.at[c] = "refresh_wait"
    /\ doctor.readers = {}
    /\ doctor' = [doctor EXCEPT !.at = DoctorAt(c, "probe")]
    /\ UNCHANGED RunnerVars

\* d.cached after Refresh: the new snapshot on success, untouched on failure
CacheAfterProbeCleared(cached, ok) == IF ok THEN "fresh" ELSE "nil"
CacheAfterProbe(cached, ok) == IF ok THEN "fresh" ELSE cached

\* what Refresh returns: the new snapshot; on failure the cached one if there
\* is one, else the error
RefreshResult(cached, ok) ==
    IF ok THEN [snap |-> "fresh", err |-> FALSE]
    ELSE IF cached # "nil" THEN [snap |-> cached, err |-> FALSE]
    ELSE [snap |-> "nil", err |-> TRUE]

\* RunDoctor returns; on success the snapshot is stored; the deferred Unlock
ProbeReturn(c, ok) ==
    /\ c \in GetCallers
    /\ doctor.at[c] = "probe"
    /\ doctor' = [doctor EXCEPT !.cached = CacheAfterProbe(doctor.cached, ok),
                                !.ret[c] = RefreshResult(doctor.cached, ok),
                                !.probe[c] = IF ok THEN "ok" ELSE "failed",
                                !.writer = "none",
                                !.at = DoctorAt(c, "idle")]
    /\ UNCHANGED RunnerVars

\* Peek is called: the caller arrives at d.mu.RLock()
CallPeek(c) ==
    /\ c \in PeekCallers
    /\ doctor.at[c] = "idle"
    /\ doctor' = [doctor EXCEPT !.at = DoctorAt(c, "peek_rlock"),
                                !.ret[c] = NoReturn]
    /\ UNCHANGED RunnerVars

PeekRLock(c) == c \in PeekCallers /\ RLockReturns(c, "peek_rlock", "peek_read")

\* Peek returns d.cached; the deferred RUnlock
PeekReturn(c) ==
    /\ c \in PeekCallers
    /\ doctor.at[c] = "peek_read"
    /\ doctor' = [doctor EXCEPT !.readers = @ \ {c},
                                !.ret[c] = [snap |-> doctor.cached, err |-> FALSE],
                                !.at = DoctorAt(c, "idle")]
    /\ UNCHANGED RunnerVars

\* the snapshot grows older than the TTL
Expire ==
    /\ doctor.cached = "fresh"
    /\ doctor' = [doctor EXCEPT !.cached = "stale"]
    /\ UNCHANGED RunnerVars

DoctorNext ==
    \/ \E c \in DoctorCallers : CallGet(c)
    \/ \E c \in DoctorCallers : GetRLock(c)
    \/ \E c \in DoctorCallers : GetRead(c)
    \/ \E c \in DoctorCallers : RefreshLock(c)
    \/ \E c \in DoctorCallers : RefreshProbe(c)
    \/ \E c \in DoctorCallers : \E ok \in BOOLEAN : ProbeReturn(c, ok)
    \/ \E c \in DoctorCallers : CallPeek(c)
    \/ \E c \in DoctorCallers : PeekRLock(c)
    \/ \E c \in DoctorCallers : PeekReturn(c)
    \/ Expire

DoctorSpec == DoctorInit /\ [][DoctorNext]_vars

\* ----------------------------------------------------------------- claims
\* C1: after every process startup (the database open runs the crash-recovery
\* sweep before the runner starts) no job row is running, and every row that
\* was running when the previous process stopped is failed with the error
\* "interrupted by restart".
C1_SweptAtStartup ==
    stage = "opened" =>
        /\ Running(jobs) = {}
        /\ \A i \in stoppedRunning :
              /\ jobs[i].status = JobStatusFailed
              /\ jobs[i].error = "interrupted by restart"

\* a process has started after one that stopped with a running row
C1_Witness == stage = "opened" /\ stoppedRunning # {}

\* C2: the orchestrator never executes two jobs at the same time: a job is
\* dispatched only after the previous handler has returned, so at most one
\* row is running in every reachable state, and it is the active handler's.
C2_OneJobAtATime ==
    /\ Cardinality(Running(jobs)) <= 1
    /\ pc \notin {"idle", "tick"} => Running(jobs) \subseteq {cur}

\* a handler is at work on a running row while another row waits
C2_Witness ==
    /\ pc \notin {"idle", "tick"}
    /\ Running(jobs) = {cur}
    /\ ListPendingJobs(jobs) # {}

\* C3: in the faces || scenes phase processIndexJob does not return before
\* every worker it launched has returned, also after a worker's error or a
\* cancellation: a worker runs only while the handler is in its fan-in.
C3_NoWorkerOutlivesJob ==
    \A w \in Workers : worker[w] = "run" => (stage = "up" /\ pc = "fanin")

\* the handler has left the fan-in of two launched workers after an error
C3_Witness == fanLog.n = 2 /\ fanLog.failed /\ pc = "idle"

\* the same, with the context cancelled during the fan-out
C3_WitnessCancelled == fanLog.n = 2 /\ fanLog.cancelled

\* C4: an upload_scenes job at attempt n is never run by the retry worker (it
\* stays pending, the uploader is not called) on a tick at which less than
\* uploadBackoff(n) has elapsed since its updated_at, for every n.
C4_BackoffRespected == lastRetry.early => lastRetry.act \in {"none", "wait"}

\* what one step may do to the status of the rows
C5_StatusMoves ==
    \A i \in DOMAIN jobs :
        /\ i \in DOMAIN jobs'
        /\ (jobs'[i].status = JobStatusRunning /\ jobs[i].status # JobStatusRunning)
              => jobs[i].status = JobStatusPending
        /\ jobs[i].status \in {JobStatusCompleted, JobStatusFailed}
              => jobs'[i].status = jobs[i].status

\* C5: across every sequence of operations a job enters running only from
\* pending, and a job that is completed or failed never changes status again.
C5_Monotone == [][C5_StatusMoves]_vars

\* a job is running while the table holds a completed and a failed job
C5_Witness ==
    /\ Running(jobs) # {}
    /\ \E i, j \in DOMAIN jobs : /\ jobs[i].status = JobStatusCompleted
                                 /\ jobs[j].status = JobStatusFailed

\* C6: every index job that reaches completed has progress 100 and an empty
\* error, for every combination of capabilities under which it completes.
C6_CompletedIsFull ==
    \A i \in DOMAIN jobs :
        (jobs[i].type = JobTypeIndex /\ jobs[i].status = JobStatusCompleted)
            => (jobs[i].progress = 100 /\ jobs[i].error = "")

\* the step in which uploadScenesToCloud returns
InlineUploadReturns == lastUp.kind = "none" /\ lastUp'.kind = "inline"

\* C7: when the first (inline) upload attempt after an index job fails with a
\* non-retryable status code (a 4xx), no upload_scenes job of any status is
\* created: the jobs table is as it was.
C7_NoJobAfterPermanent ==
    [][(/\ InlineUploadReturns
        /\ lastUp'.called
        /\ lastUp'.outcome \in StatusCodes
        /\ lastUp'.outcome < RetryableFrom) => jobs' = jobs]_vars

\* the inline upload was answered with a 4xx
C7_Witness ==
    /\ lastUp.kind = "inline" /\ lastUp.called
    /\ lastUp.outcome \in StatusCodes /\ lastUp.outcome < RetryableFrom
    /\ \A i \in DOMAIN jobs : jobs[i].type # JobTypeUploadScenes

\* the first attempt failed transiently: a 5xx answer, or no answer at all
TransientFailure(outcome) ==
    outcome = NotUploadError \/ (outcome \in StatusCodes /\ outcome >= RetryableFrom)

\* exactly one job is added: upload_scenes for file f, pending, progress 0
OneRetryJobAdded(f) ==
    /\ Len(jobs') = Len(jobs) + 1
    /\ SubSeq(jobs', 1, Len(jobs)) = jobs
    /\ LET j == jobs'[Len(jobs')]
       IN /\ j.type = JobTypeUploadScenes
          /\ j.status = JobStatusPending
          /\ j.progress = 0
          /\ j.file = f

\* C8 as stated: when the first upload attempt fails with a 5xx status or a
\* transport/network/timeout error, exactly one new upload_scenes job is
\* created for that file, pending, with attempt counter 0.
C8_RetryJobCreated ==
    [][(/\ InlineUploadReturns
        /\ lastUp'.called
        /\ TransientFailure(lastUp'.outcome))
            => OneRetryJobAdded(jobs[lastUp'.job].file)]_vars

\* C8, amended: the same, provided the job's context is not cancelled and the
\* file's row still exists when the retry job is inserted; otherwise the
\* insert fails and the jobs table is as it was.
C8_RetryJobCreatedWhenLive ==
    [][(/\ InlineUploadReturns
        /\ lastUp'.called
        /\ TransientFailure(lastUp'.outcome))
            => IF lastUp'.live
               THEN OneRetryJobAdded(jobs[lastUp'.job].file)
               ELSE jobs' = jobs]_vars

\* a transient first failure has left a fresh retry job as the last row
C8_Witness ==
    /\ lastUp.kind = "inline" /\ lastUp.called /\ lastUp.live
    /\ TransientFailure(lastUp.outcome)
    /\ jobs[Len(jobs)].type = JobTypeUploadScenes
    /\ jobs[Len(jobs)].status = JobStatusPending
    /\ jobs[Len(jobs)].progress = 0

\* the step in which uploadScenesToCloudRetry returns from an upload attempt
RetryAttemptReturns ==
    lastUp.kind = "none" /\ lastUp'.kind = "retry" /\ lastUp'.called

\* how the attempt leaves the job: failed after a permanent error; pending
\* with the incremented counter and a fresh updated_at after a retryable one;
\* completed after success
EndsInOneOfThree ==
    LET j == jobs'[lastUp'.job]
        o == lastUp'.outcome
    IN /\ j.status # JobStatusRunning
       /\ o = UploadOK => j.status = JobStatusCompleted
       /\ (o \in StatusCodes /\ o < RetryableFrom) => j.status = JobStatusFailed
       /\ TransientFailure(o) =>
             /\ j.status = JobStatusPending
             /\ j.progress = lastRetry.n + 1
             /\ j.updated.t = now

C10_Step ==
    /\ \A i \in DOMAIN attempts : attempts'[i] <= 5
    /\ \A i \in DOMAIN jobs :
          (/\ jobs[i].type = JobTypeUploadScenes
           /\ jobs[i].status = JobStatusPending
           /\ jobs[i].progress = 5
           /\ i \in DOMAIN jobs'
           /\ jobs'[i].status # JobStatusPending)
              => /\ jobs'[i].status = JobStatusFailed
                 /\ jobs'[i].error = "max retries (5) exceeded: " \o jobs[i].error
                 /\ jobs'[i].progress = 5
                 /\ attempts' = attempts
                 /\ pc' = "idle"

C11_UploadLeavesIndexJob ==
    [][InlineUploadReturns =>
         /\ jobs[lastUp'.job].status = JobStatusCompleted
              => jobs'[lastUp'.job].status = JobStatusCompleted
         /\ \A i \in DOMAIN jobs :
              jobs[i].type = JobTypeIndex => jobs'[i] = jobs[i]]_vars

\* the upload after a completed index job failed retryably and left a retry job
C11_Witness ==
    /\ lastUp.kind = "inline" /\ lastUp.called /\ lastUp.live
    /\ TransientFailure(lastUp.outcome)
    /\ jobs[lastUp.job].type = JobTypeIndex
    /\ jobs[lastUp.job].status = JobStatusCompleted
    /\ Len(jobs) > lastUp.job

\* an index job is in flight: its handler is in the speech step or the fan-in
\* and its row is running
IndexInFlight ==
    /\ stage = "up"
    /\ pc \in {"speech", "fanin"}
    /\ jobs[cur].type = JobTypeIndex
    /\ jobs[cur].status = JobStatusRunning

\* while the context is cancelled no step of the process moves the row of the
\* job in flight out of running, and the sweep of a startup fails it
C12_Step ==
    /\ (IndexInFlight /\ ctxDone) => jobs'[cur].status = JobStatusRunning
    /\ (stage = "down" /\ stage' = "opened") =>
          \A i \in Running(jobs) :
              /\ jobs'[i].status = JobStatusFailed
              /\ jobs'[i].error = "interrupted by restart"

\* C12: when the job-level context is cancelled (process shutdown) while an
\* index job is in flight, the job's row is left running (no terminal status
\* is written for it in that process lifetime) and the crash-recovery sweep
\* of the next startup rewrites it to failed.
C12_CancelledJobLeftRunning == [][C12_Step]_vars

\* the handler of a cancelled index job has returned and its row is running
C12_Witness ==
    /\ stage = "up" /\ ctxDone /\ pc = "idle"
    /\ \E i \in Running(jobs) : jobs[i].type = JobTypeIndex

\* the range loop receives an error
FanInReceivesError ==
    /\ stage = "up" /\ pc = "fanin" /\ results # <<>>
    /\ stage' = "up" /\ results' = Tail(results)
    /\ Head(results).err # ""

\* processIndexJob leaves the fan-in with an error recorded
FanInEndsWithError == fanLog = NoFan /\ fanLog' # NoFan /\ firstErr # ""

\* the recorded error is the first one received and stays until the fan-in ends
\* (or the process dies)
FirstErrorKept ==
    /\ FanInReceivesError =>
          firstErr' = (IF firstErr = "" THEN Head(results).err ELSE firstErr)
    /\ (firstErr # "" /\ ~FanInEndsWithError /\ stage' = "up") => firstErr' = firstErr

C13_Step ==
    /\ FirstErrorKept
    /\ FanInEndsWithError =>
          /\ jobs'[cur].status = JobStatusFailed
          /\ jobs'[cur].error = firstErr

C13_StepWhenLive ==
    /\ FirstErrorKept
    /\ FanInEndsWithError =>
          /\ jobs'[cur].status # JobStatusCompleted
          /\ ~ctxDone => /\ jobs'[cur].status = JobStatusFailed
                         /\ jobs'[cur].error = firstErr

\* C13: if one or both fan-out workers report an error, the index job ends
\* failed with the message of the first error received; a later error never
\* replaces it and the job never ends completed.
C13_FirstErrorFailsJob == [][C13_Step]_vars

\* C13 as the code has it: the first error received is the one kept and the job
\* never ends completed; the row is written failed with that error when the
\* job's context is still live at the end of the fan-in, and is left running
\* when it is cancelled.
C13_FirstErrorFailsJobWhenLive == [][C13_StepWhenLive]_vars

\* both workers reported an error and the job failed with the first of them
C13_Witness ==
    /\ fanLog.errs = 2 /\ ~fanLog.cancelled
    /\ fanLog.first = "faces pipeline exited 1"
    /\ jobs[cur].status = JobStatusFailed
    /\ jobs[cur].error = fanLog.first

\* C14: within one index job neither faces nor scenes is started before the
\* speech step has finished: when speech is enabled, no worker exists while
\* RunSpeech is under way, and a worker is started only after RunSpeech has
\* returned with success and its output has passed validation.
C14_SpeechBeforeWorkers ==
    /\ pc = "speech" => \A w \in Workers : worker[w] = "off"
    /\ (caps.speech /\ \E w \in Workers : worker[w] # "off") => speechOK
    /\ (lastJob.caps.speech /\ (lastJob.faces # "none" \/ lastJob.scenes # "none"))
          => lastJob.speech = "ok"

\* speech has returned and both workers were started after it
C14_Witness ==
    /\ lastJob.caps.speech /\ lastJob.speech = "ok"
    /\ lastJob.faces = "run" /\ lastJob.scenes = "run"
    /\ \A w \in Workers : worker[w] = "run"

\* C15: the scenes step is invoked in an index job only if the speech step ran
\* and succeeded in that same job; when scenes is available and speech is not,
\* scenes is never invoked.
C15_ScenesNeedSpeech ==
    /\ lastJob.scenes # "none" => lastJob.speech = "ok"
    /\ worker["scenes"] # "off" => speechOK
    /\ (lastJob.caps.scenes /\ ~lastJob.caps.speech) => lastJob.scenes = "none"

\* a job with scenes available and no speech ran faces alone, to its end
C15_Witness ==
    /\ lastJob.caps.scenes /\ ~lastJob.caps.speech
    /\ lastJob.faces = "ok" /\ lastJob.scenes = "none"
    /\ fanLog.n = 1

\* RunSpeech, or the validation of its output, ends in failure
SpeechFails ==
    /\ lastJob.speech = "run"
    /\ lastJob'.speech \in StepOutcomes \ {"ok"}

\* the message of each way the speech step fails
SpeechErrorText(out) ==
    CASE out = "error" -> "speech pipeline error"
      [] out = "exit" -> "speech pipeline exited 1"
      [] out = "invalid" -> "speech output invalid"

\* the handler returns without having started a worker
NoWorkerInvoked ==
    /\ pc' = "idle"
    /\ lastJob'.faces = "none" /\ lastJob'.scenes = "none"
    /\ \A w \in Workers : worker'[w] = "off"

C16_Step ==
    SpeechFails =>
        /\ jobs'[lastJob.job].status = JobStatusFailed
        /\ jobs'[lastJob.job].error = SpeechErrorText(lastJob'.speech)
        /\ NoWorkerInvoked

C16_StepWhenLive ==
    SpeechFails =>
        /\ IF ~ctxDone
           THEN /\ jobs'[lastJob.job].status = JobStatusFailed
                /\ jobs'[lastJob.job].error = SpeechErrorText(lastJob'.speech)
           ELSE jobs'[lastJob.job] = jobs[lastJob.job]
        /\ NoWorkerInvoked

\* C16: if the speech step fails (transport error, nonzero exit or invalid
\* output), the index job ends failed with the speech error and neither faces
\* nor scenes is invoked for that job.
C16_SpeechFailureFailsJob == [][C16_Step]_vars

\* C16 as the code has it: after a failed speech step no worker is invoked; the
\* row is written failed with the speech error when the job's context is still
\* live, and is left as it was (running) when the context is cancelled.
C16_SpeechFailureFailsJobWhenLive == [][C16_StepWhenLive]_vars

\* speech failed in a job that had faces and scenes available: the job is
\* failed with the speech error and no worker was started
C16_Witness ==
    /\ lastJob.speech \in StepOutcomes \ {"ok"}
    /\ lastJob.caps.faces /\ lastJob.caps.scenes
    /\ lastJob.faces = "none" /\ lastJob.scenes = "none"
    /\ jobs[lastJob.job].status = JobStatusFailed
    /\ jobs[lastJob.job].error = SpeechErrorText(lastJob.speech)
    /\ pc = "idle"

\* a tick hands a job to its handler
DispatchStep == pc = "tick" /\ lastJob'.job # 0

\* C17: an index job whose pre-flight check fails (runner or doctor not
\* configured, file row missing, or context already cancelled at dispatch)
\* ends failed, and no speech, faces or scenes subprocess is invoked for it.
C17_PreflightFailureFailsJob ==
    [][(DispatchStep /\ lastJob'.pre \in {"norunner", "nofile", "cancelled"}) =>
          /\ jobs'[lastJob'.job].status = JobStatusFailed
          /\ pc' = "idle"
          /\ lastJob'.speech = "none" /\ lastJob'.faces = "none"
          /\ lastJob'.scenes = "none"
          /\ \A w \in Workers : worker'[w] = "off"]_vars

\* the row of index job j is written completed
IndexJobCompletes(j) ==
    /\ jobs[j].type = JobTypeIndex
    /\ jobs[j].status # JobStatusCompleted
    /\ j \in DOMAIN jobs' /\ jobs'[j].status = JobStatusCompleted

\* every step that was invoked has returned with a zero exit and an output
\* that passed validation
EveryStepRunSucceeded(log) ==
    \A st \in {"speech", "faces", "scenes"} : log[st] \in {"none", "ok"}

\* C18: an index job reaches completed only if every step that was run in it
\* exited successfully and its output passed validation.
C18_CompletedOnlyIfStepsValid ==
    [][\A j \in DOMAIN jobs :
          IndexJobCompletes(j) =>
              /\ lastJob'.job = j /\ lastJob'.pre = "ok"
              /\ EveryStepRunSucceeded(lastJob')]_vars

\* speech, faces and scenes all ran and the job is completed
C18_Witness ==
    /\ lastJob.speech = "ok" /\ lastJob.faces = "ok" /\ lastJob.scenes = "ok"
    /\ fanLog.n = 2 /\ ~fanLog.failed
    /\ jobs[lastJob.job].status = JobStatusCompleted

\* rows are in the order of their creation: row i was created before row k
\* when i < k
CreatedBefore(i, k) == i < k

LeavesPending(i) ==
    /\ jobs[i].status = JobStatusPending
    /\ i \in DOMAIN jobs' /\ jobs'[i].status # JobStatusPending

\* C20: while the runner is paused no job is dispatched: between a call to
\* Pause and the next call to Resume the poll loop moves no job out of pending.
C20_NoDispatchWhilePaused ==
    [][(stage = "up" /\ stage' = "up" /\ paused /\ paused') =>
          \A i \in DOMAIN jobs : ~LeavesPending(i)]_vars

\* C20 as the code has it: the flag is read once per tick, before
\* processNextJob is called.  A tick that finds the runner paused calls
\* nothing, and a job leaves pending only in the one dispatch of a tick that
\* read the flag while the runner was not paused, be it that Pause was
\* called since.
C20_NoTickWhilePaused ==
    [][(stage = "up" /\ stage' = "up") =>
          /\ (paused /\ pc = "idle") => pc' = "idle"
          /\ \A i \in DOMAIN jobs :
                LeavesPending(i) => pc = "tick" /\ pc' # "tick"]_vars

\* the runner is paused, jobs wait, and the loop calls nothing
C20_Witness ==
    /\ stage = "up" /\ running /\ paused /\ ~ctxDone /\ pc = "idle"
    /\ ListPendingJobs(jobs) # {}
    /\ lastJob = NoJob

\* a job was dispatched after Pause was called, by a tick that had read the
\* flag before
C20_WitnessLateDispatch ==
    /\ stage = "up" /\ paused
    /\ lastJob.job # 0 /\ jobs[lastJob.job].status = JobStatusRunning

\* the process stops, and the next one opens the database
ProcessStops == stage # "down" /\ stage' = "down"
Startup == stage = "down" /\ stage' = "opened"

\* row i is as it was, as far as the queue is concerned
SameQueuedWork(i) ==
    /\ jobs'[i].status = JobStatusPending
    /\ jobs'[i].type = jobs[i].type
    /\ jobs'[i].file = jobs[i].file
    /\ jobs'[i].progress = jobs[i].progress

\* neither the stop nor the sweep of the next startup touches a pending row,
\* and the first job the next process dispatches is one of them
C21_Step ==
    /\ (ProcessStops \/ Startup) =>
          /\ Len(jobs') = Len(jobs)
          /\ \A i \in ListPendingJobs(jobs) : SameQueuedWork(i)
    /\ (DispatchStep /\ stoppedPending # {}) =>
          /\ lastJob'.job = Min(stoppedPending)
          /\ jobs[lastJob'.job].status = JobStatusPending

\* a process has opened the database and finds pending rows
QueuedAtStartup == stage = "opened" /\ ListPendingJobs(jobs) # {}

\* the rows Start's backfill appends fit in the job table this model follows
BackfillFits ==
    LET up == IF cfg.cloud /\ cfg.runner
              THEN UploadBackfillFiles(jobs, sceneArt) ELSE {}
        js1 == CreatePending(jobs, JobTypeUploadScenes, Ascending(up), now)
        th == IF cfg.runner
              THEN ThumbBackfillFiles(js1, BagToSet(fileRows), sceneArt, thumbDir)
              ELSE {}
    IN Len(jobs) + Cardinality(up) + Cardinality(th) <= MaxJobs

\* a job is handed to its handler, or the process is stopped, told to shut
\* down or paused before that (or the startup backfill would grow the job
\* table past the size this model follows it to)
DispatchedOrHeld ==
    \/ lastJob.job # 0
    \/ stage = "down" \/ ctxDone \/ paused
    \/ stage = "opened" /\ ~BackfillFits

ScanOrIndex(i) == jobs[i].type \in {JobTypeScan, JobTypeIndex}

\* C22: for scan and index jobs, progress never decreases during the job's
\* lifetime, and it is written only while the job's status is running.
C22_ProgressMonotone ==
    [][\A i \in DOMAIN jobs : ScanOrIndex(i) =>
          /\ jobs'[i].progress >= jobs[i].progress
          /\ jobs'[i].progress # jobs[i].progress =>
                jobs[i].status = JobStatusRunning]_vars

\* an index job whose progress was written more than once, and a scan job
\* whose progress was written
C22_Witness ==
    /\ \E i \in DOMAIN jobs : /\ jobs[i].type = JobTypeIndex
                              /\ jobs[i].progress > ProgressOf(1, 2)
    /\ \E i \in DOMAIN jobs : /\ jobs[i].type = JobTypeScan
                              /\ jobs[i].progress > 0

\* the upload_scenes rows of a job table
UploadJobs(js) == {i \in DOMAIN js : js[i].type = JobTypeUploadScenes}

\* a run of the upload backfill
BackfillRuns == stage = "opened" /\ stage' = stage

\* the table a further run of the backfill would leave
BackfillAgain(js, art, t) ==
    CreatePending(js, JobTypeUploadScenes, Ascending(UploadBackfillFiles(js, art)), t)

\* C23: running the upload backfill twice in a row with no other change in
\* between creates no job on the second run: the set of upload_scenes jobs
\* after the second run equals the set after the first.  (A run creates a
\* job only for a file that has none, one per file, and the run after it
\* leaves the table as it is.)
C23_BackfillIdempotent ==
    [][BackfillRuns =>
          /\ \A i \in UploadJobs(jobs') \ UploadJobs(jobs) :
                \A k \in UploadJobs(jobs') \ {i} : jobs'[k].file # jobs'[i].file
          /\ BackfillAgain(jobs', sceneArt', now') = jobs'
          /\ UploadJobs(BackfillAgain(jobs', sceneArt', now')) = UploadJobs(jobs')]_vars

\* a run of the backfill has created an upload job
C23_Witness ==
    /\ stage = "opened"
    /\ Len(jobs) > MaxJobs - NumFiles
    /\ jobs[Len(jobs)].type = JobTypeUploadScenes
    /\ jobs[Len(jobs)].status = JobStatusPending
    /\ UploadBackfillFiles(jobs, sceneArt) = {}

\* the first upload attempt of an index job, made inline, has succeeded
FirstAttemptSucceeds ==
    InlineUploadReturns /\ lastUp'.called /\ lastUp'.outcome = UploadOK

\* a completed upload_scenes job exists for file f
HasMarker(js, f) ==
    \E i \in DOMAIN js : /\ js[i].type = JobTypeUploadScenes
                         /\ js[i].status = JobStatusCompleted
                         /\ js[i].file = f

ScanLoopEnds == pc = "scan" /\ pc' = "scanjobs"
\* ExecuteScan's call of createIndexJobs returns
ScanJobsCreated == pc = "scanjobs" /\ pc' = "idle" /\ stage' = "up"

\* the index jobs a step has added
NewIndexJobs == {i \in DOMAIN jobs' \ DOMAIN jobs : jobs'[i].type = JobTypeIndex}

\* the index jobs of file f
IndexJobsOf(js, f) ==
    {i \in DOMAIN js : js[i].type = JobTypeIndex /\ js[i].file = f}

\* a scan adds no row for a path that has one
NoNewRowForCataloguedPath ==
    ScanLoopEnds => \A f \in BagToSet(fileRows) :
                        CopiesIn(f, fileRows') = CopiesIn(f, fileRows)

JobsOf(js, f) == {i \in DOMAIN js : js[i].file = f}

\* C26: at any time there is at most one file row per (source, path), and
\* re-scanning an already catalogued path updates that row in place: its id is
\* unchanged, so jobs that refer to the file remain valid (the row they refer
\* to is still there, and their references are as they were).
C26_OneRowPerPath ==
    /\ [](\A f \in Files : CopiesIn(f, fileRows) <= 1)
    /\ [][ScanLoopEnds =>
            \A f \in BagToSet(fileRows) :
               /\ CopiesIn(f, fileRows') = 1
               /\ JobsOf(jobs', f) = JobsOf(jobs, f)]_vars

\* a scan has gone over a path that was catalogued by an earlier scan and has
\* an index job referring to it
C26_Witness ==
    /\ stage = "up" /\ pc = "scanjobs"
    /\ jobs[cur].progress = 100
    /\ \E f \in Files : /\ CopiesIn(f, fileRows) = 1
                        /\ \E i \in JobsOf(jobs, f) : jobs[i].type = JobTypeIndex

\* the scan jobs a step moves to completed
ScansCompletedByStep ==
    {i \in DOMAIN jobs : /\ jobs[i].type = JobTypeScan
                         /\ jobs[i].status # JobStatusCompleted
                         /\ jobs'[i].status = JobStatusCompleted}

\* C27: a scan job is moved to completed only after the index jobs for its
\* files have been created: when a scan job becomes completed, every file
\* catalogued for its source already has an index job.
C27_CompletedAfterIndexJobs ==
    [][ScansCompletedByStep # {} =>
          \A f \in BagToSet(fileRows') : IndexJobsOf(jobs', f) # {}]_vars

\* the file loop of a scan whose walk found no video file ends
EmptyScanLoopEnds == ScanLoopEnds /\ lastJob'.found = 0
\* createIndexJobs returns to a scan whose walk found no video file
EmptyScanJobsCreated == ScanJobsCreated /\ lastJob.found = 0 /\ ~ctxDone

\* C28: a scan that discovers zero video files creates zero index jobs and
\* ends completed with progress 100.
C28_EmptyScanCompletes ==
    [][/\ EmptyScanLoopEnds =>
            /\ jobs'[cur].status = JobStatusCompleted
            /\ jobs'[cur].progress = 100
       /\ EmptyScanJobsCreated =>
            /\ NewIndexJobs = {}
            /\ jobs'[cur].status = JobStatusCompleted
            /\ jobs'[cur].progress = 100]_vars

\* the part of C28 the code keeps when the source has no catalogued file left
\* without a live index job: the empty scan ends completed and adds no job
C28_EmptyScanEndsCompleted ==
    [][/\ EmptyScanLoopEnds => jobs'[cur].status = JobStatusCompleted
       /\ (EmptyScanJobsCreated /\ IndexJobFiles(jobs, BagToSet(fileRows)) = {}) =>
            /\ jobs' = jobs
            /\ jobs'[cur].status = JobStatusCompleted]_vars

\* ExecuteScan returns from its file loop on a context that was cancelled
\* while it ran
CancelledScanReturns == pc = "scan" /\ pc' # "scan" /\ stage' = "up" /\ ctxDone

\* C29: if the context is cancelled while a scan is executing, the scan job
\* ends failed with error "cancelled"; it never ends completed.
C29_CancelledScanFails ==
    [][CancelledScanReturns =>
          /\ jobs'[cur].status = JobStatusFailed
          /\ jobs'[cur].error = "cancelled"]_vars

\* what the code does instead: the cancelled scan writes nothing more, and its
\* row is left running (the next startup's sweep fails it as interrupted)
C29_CancelledScanLeftRunning ==
    [][CancelledScanReturns =>
          /\ jobs'[cur].status = JobStatusRunning
          /\ jobs'[cur].error = ""
          /\ Len(jobs') = Len(jobs)]_vars

\* a caller of Peek stands at Peek's RLock
PeekCalled(c) == doctor.at[c] = "peek_rlock"
\* another caller's Get or Refresh is in the middle of a doctor probe
MidProbe == \E p \in GetCallers : doctor.at[p] = "probe"

\* C30: Peek never blocks: it returns immediately (nil or a possibly stale
\* snapshot) even while another caller's Get or Refresh is in the middle of a
\* doctor probe: whenever Peek has been called, its next step can be taken at
\* once.
C30_PeekNeverBlocks ==
    \A c \in PeekCallers : PeekCalled(c) => ENABLED PeekRLock(c)

\* what the code gives: Peek gets its read lock at once whenever no Refresh has
\* called Lock, and never while one is probing
C30_PeekWaitsForProbe ==
    \A c \in PeekCallers :
        /\ (PeekCalled(c) /\ MidProbe) => ~ENABLED PeekRLock(c)
        /\ (PeekCalled(c) /\ doctor.writer = "none") => ENABLED PeekRLock(c)

\* Get has the read lock and reads d.cached in this step
GetReads(c) == doctor.at[c] = "get_read" /\ doctor'.at[c] # "get_read"

\* RunDoctor is started for caller c in this step
ProbeStarts(c) == doctor.at[c] # "probe" /\ doctor'.at[c] = "probe"

\* C31 (as stated): Get runs the doctor probe only when no cached snapshot
\* exists or the cached snapshot is older than the TTL: while a probe started
\* by a Get is under way, d.cached is nil or stale.
C31_ProbeOnlyWhenStale ==
    \A c \in GetCallers :
       doctor.at[c] = "probe" => doctor.cached \in {"nil", "stale"}

\* C31 (amended): Get decides on the snapshot it reads under the read lock:
\* it returns that snapshot without probing when it is fresher than the TTL
\* and goes on to Refresh when it is nil or older, and a probe is started for
\* a Get only after such a read; another caller may have cached a fresh
\* snapshot between that read and the probe.
C31_ProbeOnlyAfterStaleRead ==
    /\ [][\A c \in GetCallers : GetReads(c) =>
            IF doctor.cached = "fresh"
            THEN /\ doctor'.at[c] = "idle"
                 /\ doctor'.ret[c] = [snap |-> "fresh", err |-> FALSE]
                 /\ doctor'.cached = doctor.cached
            ELSE /\ doctor'.at[c] = "refresh_lock"
                 /\ doctor'.ret[c] = NoReturn]_vars
    /\ [][\A c \in GetCallers : ProbeStarts(c) =>
            doctor.saw[c] \in {"nil", "stale"}]_vars

\* one Get has returned the fresh snapshot without probing, and another
\* Get, having read a snapshot older than the TTL, is probing
C31_Witness ==
    \E c, d \in GetCallers :
       /\ doctor.at[c] = "probe" /\ doctor.saw[c] = "stale"
       /\ doctor.at[d] = "idle" /\ doctor.saw[d] = "fresh"
       /\ doctor.ret[d] = [snap |-> "fresh", err |-> FALSE]

\* RunDoctor returns to caller c's Refresh in this step
ProbeReturns(c) == doctor.at[c] = "probe" /\ doctor'.at[c] = "idle"

\* C32: when a doctor probe fails, Refresh (and with it Get) returns the
\* cached snapshot and no error if there is one, and the error only when the
\* cache is empty; the failed probe leaves d.cached as it was.
C32_FailedProbeServesCache ==
    [][\A c \in GetCallers :
          (ProbeReturns(c) /\ doctor'.probe[c] = "failed") =>
             /\ doctor'.cached = doctor.cached
             /\ doctor.cached # "nil" =>
                   doctor'.ret[c] = [snap |-> doctor.cached, err |-> FALSE]
             /\ doctor.cached = "nil" =>
                   doctor'.ret[c] = [snap |-> "nil", err |-> TRUE]]_vars

\* one Get's probe failed on an empty cache and returned the error; later
\* another Get's probe failed on an expired snapshot, which it returned and
\* which is still cached
C32_Witness ==
    \E c, d \in GetCallers :
       /\ doctor.at[c] = "idle" /\ doctor.probe[c] = "failed"
       /\ doctor.ret[c] = [snap |-> "stale", err |-> FALSE]
       /\ doctor.cached = "stale"
       /\ doctor.at[d] = "idle" /\ doctor.probe[d] = "failed"
       /\ doctor.ret[d] = [snap |-> "nil", err |-> TRUE]

\* min(10 * 3^n, 600), in seconds
RECURSIVE CappedBackoff(_)
CappedBackoff(n) ==
    IF n = 0 THEN BackoffBase
    ELSE IF 3 * CappedBackoff(n - 1) > maxBackoff THEN maxBackoff
    ELSE 3 * CappedBackoff(n - 1)

\* what uploadBackoff returned is the capped power, is no more than ten
\* minutes, and is no less than what it returned for the attempt before
BackoffAsSpecified ==
    /\ delay.backoff = Mul(Second, CappedBackoff(delay.attempt))
    /\ ~Greater(delay.backoff, Mul(Second, maxBackoff))
    /\ delay.again => ~Less(delay.backoff, delay.before)

C33_BackoffCappedPowerBelowOverflow ==
    /\ (delay.set /\ delay.attempt <= 18) => BackoffAsSpecified
    /\ delay.set => ~Greater(delay.backoff, Mul(Second, maxBackoff))

\* C34: a scan never catalogues a file that lies under a directory (the
\* source's root or one below it) whose name begins with ".": there is no
\* file row and no index job for such a file.
C34_HiddenNeverCatalogued ==
    \A f \in Files :
       (\E i \in 1..Len(place[f]) : place[f][i]) =>
          /\ ~BagIn(f, fileRows)
          /\ \A i \in DOMAIN jobs : jobs[i].file # f

\* a scan has run to the end of createIndexJobs, uncancelled, with a video
\* file in a directory whose name does not begin with "." but which lies in
\* one whose name does, and has found no file
C34_Witness ==
    /\ pc = "idle" /\ lastJob.job # 0 /\ ~ctxDone
    /\ jobs[lastJob.job].type = JobTypeScan
    /\ jobs[lastJob.job].status = JobStatusCompleted
    /\ \E f \in Files : place[f] = <<TRUE, FALSE>>
    /\ lastJob.found = 0

\* the retry worker calls the uploader for a job of file f in this step
UploadAttempted(f) ==
    /\ lastUp'.kind = "retry" /\ lastUp'.called
    /\ jobs[lastUp'.job].file = f

\* an upload_scenes row of file f is added in this step
UploadRowAdded(f) ==
    \E i \in DOMAIN jobs' \ DOMAIN jobs :
       jobs'[i].type = JobTypeUploadScenes /\ jobs'[i].file = f

\* C35: a scene upload that failed with a permanent error on its first
\* attempt is never attempted again for that file, neither by the poll loop
\* nor after a restart.
C35_NoUploadAfterPermanent ==
    [][\A f \in refused : ~UploadAttempted(f)]_vars

\* what does hold: after the permanent error no upload_scenes row of the
\* file is added while the process runs on; only the backfill of a later
\* Start adds one
C35_UploadRowOnlyFromBackfill ==
    [][\A f \in refused : UploadRowAdded(f) => stage = "opened"]_vars

\* the tick dispatches the oldest pending job, an upload_scenes job that is
\* waiting out its backoff, in this step
TickMeetsBackoff == pc = "tick" /\ lastRetry'.act = "wait"

\* another pending job is ready to run: a job of another type, or an
\* upload_scenes job whose backoff has elapsed
AnotherJobReady ==
    \E k \in ListPendingJobs(jobs) \ {lastRetry'.job} :
       jobs[k].type # JobTypeUploadScenes \/ ~InBackoff(jobs[k], now)

C36_BackoffEndsTick ==
    [][TickMeetsBackoff => (pc' = "idle" /\ jobs' = jobs)]_vars

\* every job row has ended
AllSettled ==
    \A i \in DOMAIN jobs : jobs[i].status \in {JobStatusCompleted, JobStatusFailed}

\* the runner is not ticking (stopped, shutting down or paused), or the model
\* does not follow the run further: the runner's next step would grow the job
\* table past MaxJobs, or a waiting upload job needs the clock past MaxNow
NotTicking ==
    \/ stage # "up" \/ ctxDone \/ paused
    \/ ~ENABLED RunnerStep
    \/ /\ now = MaxNow
       /\ \E i \in ListPendingJobs(jobs) :
             jobs[i].type = JobTypeUploadScenes /\ InBackoff(jobs[i], now)

\* C37: if the runner keeps ticking unpaused and every subprocess and upload
\* call returns, every job that is ever pending eventually reaches completed
\* or failed: again and again, either every job row has ended or the runner
\* is not ticking.
C37_PendingJobsEnd == []<>(AllSettled \/ NotTicking)

\* an upload_scenes job has been attempted by the retry worker and has ended,
\* as has every other job, while the runner ticks on
C37_Witness ==
    /\ AllSettled /\ stage = "up" /\ ~ctxDone /\ ~paused
    /\ \E i \in DOMAIN jobs :
          /\ jobs[i].type = JobTypeUploadScenes
          /\ jobs[i].status = JobStatusCompleted
          /\ attempts[i] > 0
    /\ \E i \in DOMAIN jobs : jobs[i].type = JobTypeIndex

\* a step adds a job row of type ty for file f
JobAdded(f, ty) ==
    \E i \in DOMAIN jobs' \ DOMAIN jobs : jobs'[i].type = ty /\ jobs'[i].file = f
\* the rows of js, out of the set ids, that are jobs of type ty for file f
ListedJobsOf(js, ids, f, ty) == {i \in ids : js[i].type = ty /\ js[i].file = f}
IndexGuarded(js, ids, f) ==
    \E i \in ListedJobsOf(js, ids, f, JobTypeIndex) :
        js[i].status \in {JobStatusPending, JobStatusRunning, JobStatusCompleted}

\* C38: the duplicate guards of scan and of both backfill passes take every
\* existing job row into account, however many job rows exist: no step of a
\* scan or of Start adds an index job for a file that has a pending, running
\* or completed one, nor an upload_scenes or generate_thumbnails job for a
\* file that has one.
C38_GuardsSeeEveryRow ==
    [][\A f \in Files :
          /\ IndexGuarded(jobs, DOMAIN jobs, f) => ~JobAdded(f, JobTypeIndex)
          /\ ListedJobsOf(jobs, DOMAIN jobs, f, JobTypeUploadScenes) # {}
                => ~JobAdded(f, JobTypeUploadScenes)
          /\ ListedJobsOf(jobs, DOMAIN jobs, f, JobTypeGenerateThumbnails) # {}
                => ~JobAdded(f, JobTypeGenerateThumbnails)]_vars

\* what the guards do ensure: a job among the rows their listing returns (the
\* 10000 most recent for scan and the upload backfill, the 1000 most recent
\* for the thumbnail backfill) is never given a second one
C38_GuardsSeeListedRows ==
    [][\A f \in Files :
          /\ IndexGuarded(jobs, ListJobs(jobs, indexJobsListLimit), f)
                => ~JobAdded(f, JobTypeIndex)
          /\ ListedJobsOf(jobs, ListJobs(jobs, uploadJobsListLimit), f, JobTypeUploadScenes) # {}
                => ~JobAdded(f, JobTypeUploadScenes)
          /\ ListedJobsOf(jobs, ListJobs(jobs, thumbJobsListLimit), f, JobTypeGenerateThumbnails) # {}
                => ~JobAdded(f, JobTypeGenerateThumbnails)]_vars

\* a job row whose source has been removed: the row's reference to the source
\* (scan) or to the file (index, upload_scenes, generate_thumbnails) is null
Orphaned(row) ==
    IF row.type = JobTypeScan THEN row.source = NoSource ELSE row.file = NoFile

C40_OnePollLoop ==
    [][/\ poll'.loops <= 1
       /\ poll'.calls > poll.calls /\ running =>
             /\ jobs' = jobs
             /\ poll'.loops = poll.loops
             /\ running']_vars

\* Start has been called while the loop was running, which it still is
C40_Witness == poll.calls > 0 /\ poll.loops = 1 /\ running /\ ~ctxDone

====
